---- MODULE Spec2Model ----
(***************************************************************************)
(* A model of glambda's deployment orchestration: Deploy builds a Lambda   *)
(* descriptor, prepares and executes the execution-role action against    *)
(* IAM, prepares and executes the function action against Lambda, waits   *)
(* for the function to become consistent and invokes it in dry-run mode.  *)
(* One action of the model is one remote call of the program together     *)
(* with the local code that runs up to the next remote call.               *)
(***************************************************************************)
EXTENDS Integers, Sequences, FiniteSets, TLC

VARIABLES
    roles,                    \* IAM: names of the roles that exist
    attached,                 \* IAM: role name -> managed policy ARNs attached
    inlinePolicies,           \* IAM: role name -> names of the inline policies put
    functions,                \* Lambda: names of the functions that exist
    grants,                   \* Lambda: function name -> statement ids granted
    proc                      \* deployer -> the state of its Deploy call

vars == <<roles, attached, inlinePolicies, functions, grants, proc>>

----------------------------------------------------------------------------
(* Bounds of the model *)

\* longest list of user-supplied managed policies of a descriptor
MaxPolicies == 2
\* number of deployments one deployer runs one after the other
MaxRuns == 2

(* Constants of the program *)

\* WaitForConsistency: retryLimit := 10
retryLimit == 10
\* customRetryer: o.MaxAttempts = 20
MaxAttempts == 20

----------------------------------------------------------------------------
(* Values *)

\* a nil pointer to a struct, and a nil *string
Nil == [nil |-> TRUE]
NilString == "<nil>"

Deployers == {"d1", "d2"}
FunctionNames == {"test", "Test"}
\* the values UUID() returns; no decision of the program reads the value
Tokens == {"DEADBEEF"}

AWSLambdaBasicExecutionRole ==
    "arn:aws:iam::aws:policy/service-role/AWSLambdaBasicExecutionRole"
IAMFullAccess == "arn:aws:iam::aws:policy/IAMFullAccess"
PolicyArns == {AWSLambdaBasicExecutionRole, IAMFullAccess}
DefaultAssumeRolePolicy == "lambda.amazonaws.com may sts:AssumeRole"
AccountID == "123456789012"

\* strings.ToLower on the function names of the model
ToLower(name) == IF name = "Test" THEN "test" ELSE name

RoleNameOf(name) == "glambda_exec_role_" \o ToLower(name)
RoleNames == {RoleNameOf(n) : n \in FunctionNames}

(* Errors: the type of the error value, its message and the type of the    *)
(* error it wraps ("nil" when it wraps none).                              *)
Error(type, msg) == [type |-> type, msg |-> msg, wraps |-> "nil"]
NoErr == Error("nil", "")
NoSuchEntity == Error("NoSuchEntityException", "")
EntityAlreadyExists == Error("EntityAlreadyExistsException", "")
IAMServiceFailure == Error("ServiceFailureException", "")
ResourceNotFound == Error("ResourceNotFoundException", "")
ResourceConflict == Error("ResourceConflictException", "")
LambdaServiceFailure == Error("ServiceException", "")
RoleNotAssumable ==
    Error("InvalidParameterValueException",
          "The role defined for the function cannot be assumed by Lambda")
OtherInvalidParameter ==
    Error("InvalidParameterValueException",
          "Unzipped size must be smaller than 262144000 bytes")
NotYetConsistent == Error("ResourceConflictException", "not yet consistent")
BuildError == Error("ExitError", "go build failed")

\* errors.As(err, &target) for a target of the given type
ErrorsAs(err, type) == err.type = type \/ err.wraps = type

----------------------------------------------------------------------------
(* Paperwork reducers *)

CreateRoleCommand(roleName, assumePolicyDocument) ==
    [RoleName |-> roleName, AssumeRolePolicyDocument |-> assumePolicyDocument]

AttachManagedPolicyCommand_BaselineOnly(roleName, policyARN) ==
    [RoleName |-> roleName, PolicyArn |-> AWSLambdaBasicExecutionRole]

AttachManagedPolicyCommand(roleName, policyARN) ==
    [RoleName |-> roleName, PolicyArn |-> policyARN]

PutRolePolicyCommand_AlwaysStages(role, uuid) ==
    << [PolicyName |-> "glambda_inline_policy_" \o uuid,
        PolicyDocument |-> role.InLinePolicy,
        RoleName |-> role.RoleName] >>

\* uuid is the value UUID() returns
PutRolePolicyCommand(role, uuid) ==
    IF role.InLinePolicy = ""
    THEN <<>>
    ELSE << [PolicyName |-> "glambda_inline_policy_" \o uuid,
             PolicyDocument |-> role.InLinePolicy,
             RoleName |-> role.RoleName] >>

CreateLambdaResourcePolicy_DropsPrincipalCheck(l, uuid) ==
    [Action |-> "lambda:InvokeFunction",
     FunctionName |-> l.Name,
     StatementId |-> "glambda_invoke_permission_" \o uuid,
     Principal |-> l.ResourcePolicy.Principal,
     SourceAccount |-> l.ResourcePolicy.SourceAccountCondition,
     SourceArn |-> l.ResourcePolicy.SourceArnCondition,
     PrincipalOrgID |-> l.ResourcePolicy.PrincipalOrgIdCondition]

CreateLambdaResourcePolicy_SwapsConditions(l, uuid) ==
    IF l.ResourcePolicy.Principal = ""
    THEN Nil
    ELSE [Action |-> "lambda:InvokeFunction",
          FunctionName |-> l.Name,
          StatementId |-> "glambda_invoke_permission_" \o uuid,
          Principal |-> l.ResourcePolicy.Principal,
          SourceAccount |-> l.ResourcePolicy.PrincipalOrgIdCondition,
          SourceArn |-> l.ResourcePolicy.SourceArnCondition,
          PrincipalOrgID |-> l.ResourcePolicy.SourceAccountCondition]

CreateLambdaResourcePolicy(l, uuid) ==
    IF l.ResourcePolicy.Principal = ""
    THEN Nil
    ELSE [Action |-> "lambda:InvokeFunction",
          FunctionName |-> l.Name,
          StatementId |-> "glambda_invoke_permission_" \o uuid,
          Principal |-> l.ResourcePolicy.Principal,
          SourceAccount |-> l.ResourcePolicy.SourceAccountCondition,
          SourceArn |-> l.ResourcePolicy.SourceArnCondition,
          PrincipalOrgID |-> l.ResourcePolicy.PrincipalOrgIdCondition]

CreateLambdaCommand(name, roleARN) ==
    [FunctionName |-> name, Role |-> roleARN, Handler |-> "/var/task/bootstrap"]

UpdateLambdaCommand(name) ==
    [FunctionName |-> name, Publish |-> TRUE]

----------------------------------------------------------------------------
(* Descriptors *)

\* the sequences over S of length at most n
SeqUpTo(S, n) == UNION {[1..k -> S] : k \in 0..n}

\* the Lambda NewLambda builds, with the fields the deploy options set
Lambda(name, managed, inline, principal, account) ==
    [Name |-> name,
     ExecutionRole |->
        [RoleName |-> RoleNameOf(name),
         RoleARN |-> "arn:aws:iam::" \o AccountID \o ":role/" \o RoleNameOf(name),
         AssumeRolePolicyDocument |-> DefaultAssumeRolePolicy,
         ManagedPolicies |-> managed,
         InLinePolicy |-> inline],
     ResourcePolicy |->
        [Principal |-> principal,
         SourceAccountCondition |-> account,
         SourceArnCondition |-> NilString,
         PrincipalOrgIdCondition |-> NilString]]

\* the descriptor with the source-ARN condition of its Resource Permission set
WithSourceArn(l) ==
    [l EXCEPT !.ResourcePolicy.SourceArnCondition = "arn:aws:s3:::bucket"]

Lambdas(name) ==
    { Lambda(name, managed, inline, "", NilString) :
        managed \in SeqUpTo(PolicyArns, MaxPolicies),
        inline \in {"", "inline policy document"} }
    \cup
    { WithSourceArn(Lambda(name, managed, inline, "s3.amazonaws.com", AccountID)) :
        managed \in SeqUpTo(PolicyArns, MaxPolicies),
        inline \in {"", "inline policy document"} }

----------------------------------------------------------------------------
(* The provider: the answers IAM and Lambda can give to a call, given what *)
(* exists. A call on an existing resource may still fail with a service    *)
(* failure.                                                                *)

GetRoleAnswers(roleName) ==
    IF roleName \in roles THEN {NoErr, IAMServiceFailure}
                          ELSE {NoSuchEntity, IAMServiceFailure}

CreateRoleAnswers(roleName) ==
    IF roleName \in roles THEN {EntityAlreadyExists}
                          ELSE {NoErr, IAMServiceFailure}

RolePolicyAnswers(roleName) ==
    IF roleName \in roles THEN {NoErr, IAMServiceFailure}
                          ELSE {NoSuchEntity}

\* Package answers the artifact, or the error of the build
PackageAnswers == {NoErr, BuildError}

GetFunctionAnswers(name) ==
    IF name \in functions THEN {NoErr, LambdaServiceFailure}
                          ELSE {ResourceNotFound, LambdaServiceFailure}

CreateFunctionAnswers(name) ==
    IF name \in functions
    THEN {ResourceConflict}
    ELSE {NoErr, RoleNotAssumable, OtherInvalidParameter, LambdaServiceFailure}

FunctionAnswers(name) ==
    IF name \in functions THEN {NoErr, LambdaServiceFailure}
                          ELSE {ResourceNotFound}

\* PublishVersion answers an error, or a version that may be missing
Versions == {"1", "2"}
PublishVersionAnswers(name) ==
    {[err |-> e, Version |-> NilString] :
        e \in IF name \in functions THEN {NotYetConsistent} ELSE {ResourceNotFound}}
    \cup {[err |-> NoErr, Version |-> v] :
            v \in IF name \in functions THEN Versions \cup {NilString} ELSE {}}

----------------------------------------------------------------------------
(* The decisions of the program, as functions of the provider's answers *)

\* `if err != nil { return err }` in Lambda.Deploy and Deploy: the position
\* the deployment moves to and the error it has returned
IfErrReturn_Continues(err, next) ==
    [pc |-> next, result |-> NoErr]

IfErrReturn(err, next) ==
    IF err # NoErr THEN [pc |-> "done", result |-> err]
                   ELSE [pc |-> next, result |-> NoErr]

PrepareRoleAction_AlwaysCreates(role, getRoleErr, uuid) ==
    [action |->
        [CreateRole |-> CreateRoleCommand(role.RoleName, role.AssumeRolePolicyDocument),
         ManagedPolicies |->
            <<AttachManagedPolicyCommand(role.RoleName, AWSLambdaBasicExecutionRole)>>
            \o [k \in 1..Len(role.ManagedPolicies) |->
                  AttachManagedPolicyCommand(role.RoleName, role.ManagedPolicies[k])],
         InlinePolicies |-> PutRolePolicyCommand(role, uuid)],
     err |-> NoErr]

PrepareRoleAction_AnyErrorIsNotFound(role, getRoleErr, uuid) ==
    [action |->
        [CreateRole |->
            IF getRoleErr # NoErr
            THEN CreateRoleCommand(role.RoleName, role.AssumeRolePolicyDocument)
            ELSE Nil,
         ManagedPolicies |->
            <<AttachManagedPolicyCommand(role.RoleName, AWSLambdaBasicExecutionRole)>>
            \o [k \in 1..Len(role.ManagedPolicies) |->
                  AttachManagedPolicyCommand(role.RoleName, role.ManagedPolicies[k])],
         InlinePolicies |-> PutRolePolicyCommand(role, uuid)],
     err |-> NoErr]

\* getRoleErr is the error of iamClient.GetRole
PrepareRoleAction(role, getRoleErr, uuid) ==
    IF getRoleErr # NoErr /\ ~ErrorsAs(getRoleErr, "NoSuchEntityException")
    THEN [action |-> Nil, err |-> getRoleErr]
    ELSE [action |->
            [CreateRole |->
                IF getRoleErr # NoErr
                THEN CreateRoleCommand(role.RoleName, role.AssumeRolePolicyDocument)
                ELSE Nil,
             ManagedPolicies |->
                <<AttachManagedPolicyCommand(role.RoleName, AWSLambdaBasicExecutionRole)>>
                \o [k \in 1..Len(role.ManagedPolicies) |->
                      AttachManagedPolicyCommand(role.RoleName, role.ManagedPolicies[k])],
             InlinePolicies |-> PutRolePolicyCommand(role, uuid)],
          err |-> NoErr]

\* RoleCreateOrUpdate.Do: the step Do takes next, as [pc, idx, err]: a call
\* of the client (pc names it, idx is the position in the list it is for), or
\* the return of Do with err (pc "return")
RoleDo_PutFrom(a, k) ==
    IF k <= Len(a.InlinePolicies)
    THEN [pc |-> "PutRolePolicy", idx |-> k, err |-> NoErr]
    ELSE [pc |-> "return", idx |-> 1, err |-> NoErr]

RoleDo_AttachFrom(a, k) ==
    IF k <= Len(a.ManagedPolicies)
    THEN [pc |-> "AttachRolePolicy", idx |-> k, err |-> NoErr]
    ELSE RoleDo_PutFrom(a, 1)

RoleDo_Start(a) ==
    IF a.CreateRole # Nil
    THEN [pc |-> "CreateRole", idx |-> 1, err |-> NoErr]
    ELSE RoleDo_AttachFrom(a, 1)

RoleDo_AfterCreateRole_CreatesAgain(a, err) ==
    IF err # NoErr THEN [pc |-> "return", idx |-> 1, err |-> err]
                   ELSE [pc |-> "CreateRole", idx |-> 1, err |-> NoErr]

RoleDo_AfterCreateRole_IgnoresError(a, err) ==
    RoleDo_AttachFrom(a, 1)

\* after client.CreateRole returned err
RoleDo_AfterCreateRole(a, err) ==
    IF err # NoErr THEN [pc |-> "return", idx |-> 1, err |-> err]
                   ELSE RoleDo_AttachFrom(a, 1)

RoleDo_AfterAttach_IgnoresError(a, k, err) ==
    RoleDo_AttachFrom(a, k + 1)

\* after client.AttachRolePolicy of a.ManagedPolicies[k] returned err
RoleDo_AfterAttach(a, k, err) ==
    IF err # NoErr THEN [pc |-> "return", idx |-> 1, err |-> err]
                   ELSE RoleDo_AttachFrom(a, k + 1)

RoleDo_AfterPut_IgnoresError(a, k, err) ==
    RoleDo_PutFrom(a, k + 1)

\* after client.PutRolePolicy of a.InlinePolicies[k] returned err
RoleDo_AfterPut(a, k, err) ==
    IF err # NoErr THEN [pc |-> "return", idx |-> 1, err |-> err]
                   ELSE RoleDo_PutFrom(a, k + 1)

lambdaExists_NeverExists(getFunctionErr) ==
    IF getFunctionErr # NoErr /\ ~ErrorsAs(getFunctionErr, "ResourceNotFoundException")
    THEN [exists |-> FALSE, err |-> getFunctionErr]
    ELSE [exists |-> FALSE, err |-> NoErr]

lambdaExists(getFunctionErr) ==
    IF getFunctionErr # NoErr
    THEN IF ErrorsAs(getFunctionErr, "ResourceNotFoundException")
         THEN [exists |-> FALSE, err |-> NoErr]
         ELSE [exists |-> FALSE, err |-> getFunctionErr]
    ELSE [exists |-> TRUE, err |-> NoErr]

NewLambdaCreateAction(l, uuid) ==
    [kind |-> "LambdaCreateAction",
     Command |-> CreateLambdaCommand(l.Name, l.ExecutionRole.RoleARN),
     ResourcePolicyCommand |-> CreateLambdaResourcePolicy(l, uuid)]

NewLambdaUpdateAction(l, uuid) ==
    [kind |-> "LambdaUpdateAction",
     Command |-> UpdateLambdaCommand(l.Name),
     ResourcePolicyCommand |-> CreateLambdaResourcePolicy(l, uuid)]

PrepareLambdaAction_IgnoresLookup(l, pkgErr, getFunctionErr, uuid) ==
    IF pkgErr # NoErr
    THEN [action |-> Nil, err |-> pkgErr]
    ELSE [action |-> NewLambdaCreateAction(l, uuid), err |-> NoErr]

PrepareLambdaAction_IgnoresBuild(l, pkgErr, getFunctionErr, uuid) ==
    LET e == lambdaExists(getFunctionErr) IN
    IF e.err # NoErr
    THEN [action |-> Nil, err |-> e.err]
    ELSE IF e.exists
         THEN [action |-> NewLambdaUpdateAction(l, uuid), err |-> NoErr]
         ELSE [action |-> NewLambdaCreateAction(l, uuid), err |-> NoErr]

\* pkgErr is the error of Package, getFunctionErr the error of c.GetFunction
PrepareLambdaAction(l, pkgErr, getFunctionErr, uuid) ==
    IF pkgErr # NoErr
    THEN [action |-> Nil, err |-> pkgErr]
    ELSE LET e == lambdaExists(getFunctionErr) IN
         IF e.err # NoErr
         THEN [action |-> Nil, err |-> e.err]
         ELSE IF e.exists
              THEN [action |-> NewLambdaUpdateAction(l, uuid), err |-> NoErr]
              ELSE [action |-> NewLambdaCreateAction(l, uuid), err |-> NoErr]

\* the client's error for a failed operation: it wraps the provider's error
OperationError(op, err) ==
    [type |-> "OperationError", msg |-> op, wraps |-> err.type]

IsErrorRetryable_TypeOnly(err) == err.type = "InvalidParameterValueException"

\* RetryableErrors.IsErrorRetryable
IsErrorRetryable(err) == ErrorsAs(err, "InvalidParameterValueException")

Retries_Never(err, attempt) == FALSE

\* the retryer customRetryer configures: whether the client sends the request
\* again after its attempt number `attempt` failed with err
Retries(err, attempt) == IsErrorRetryable(err) /\ attempt < MaxAttempts

LambdaCreateAction_Do_GrantsAnyway(a, err) ==
    IF a.ResourcePolicyCommand = Nil
    THEN [pc |-> "return", idx |-> 1, err |-> err]
    ELSE [pc |-> "AddPermission", idx |-> 1, err |-> NoErr]

LambdaCreateAction_Do_FallsBackToUpdate(a, err) ==
    IF err = ResourceConflict
    THEN [pc |-> "UpdateFunctionCode", idx |-> 1, err |-> NoErr]
    ELSE IF err # NoErr THEN [pc |-> "return", idx |-> 1, err |-> err]
    ELSE IF a.ResourcePolicyCommand = Nil
         THEN [pc |-> "return", idx |-> 1, err |-> NoErr]
         ELSE [pc |-> "AddPermission", idx |-> 1, err |-> NoErr]

\* LambdaCreateAction.Do after client.CreateFunction returned err
LambdaCreateAction_Do(a, err) ==
    IF err # NoErr THEN [pc |-> "return", idx |-> 1, err |-> err]
    ELSE IF a.ResourcePolicyCommand = Nil
         THEN [pc |-> "return", idx |-> 1, err |-> NoErr]
         ELSE [pc |-> "AddPermission", idx |-> 1, err |-> NoErr]

\* LambdaUpdateAction.Do after client.UpdateFunctionCode returned err
LambdaUpdateAction_Do(a, err) == [pc |-> "return", idx |-> 1, err |-> err]

\* the error WaitForConsistency returns when its budget is spent; err is the
\* error of the last PublishVersion
ConsistencyTimeout(err) ==
    Error("errorString",
          "waited for lambda become consistent, but didn't after 10 retries")

VersionIsNil == Error("errorString", "version is nil")

InvokeInput_Unqualified(name, version) ==
    [FunctionName |-> name, Qualifier |-> "$LATEST", InvocationType |-> "Event"]

\* the input Lambda.Test passes to lambdaClient.Invoke
InvokeInput(name, version) ==
    [FunctionName |-> name, Qualifier |-> version, InvocationType |-> "DryRun"]

WaitForConsistency_GivesUpEarly(i, resp) ==
    IF resp.err = NoErr
    THEN IF resp.Version = NilString
         THEN [pc |-> "return", version |-> "", err |-> VersionIsNil, delay |-> 0]
         ELSE [pc |-> "return", version |-> resp.Version, err |-> NoErr, delay |-> 0]
    ELSE IF i >= retryLimit - 2
         THEN [pc |-> "return", version |-> "",
               err |-> ConsistencyTimeout(resp.err), delay |-> 1]
         ELSE [pc |-> "PublishVersion", version |-> "", err |-> NoErr, delay |-> 1]

WaitForConsistency_RetriesOnNilVersion(i, resp) ==
    IF resp.err = NoErr /\ resp.Version # NilString
    THEN [pc |-> "return", version |-> resp.Version, err |-> NoErr, delay |-> 0]
    ELSE IF i = retryLimit
         THEN [pc |-> "return", version |-> "",
               err |-> ConsistencyTimeout(resp.err), delay |-> 1]
         ELSE [pc |-> "PublishVersion", version |-> "", err |-> NoErr, delay |-> 1]

WaitForConsistency_RetriesOnceMore(i, resp) ==
    IF resp.err = NoErr
    THEN IF resp.Version = NilString
         THEN [pc |-> "return", version |-> "", err |-> VersionIsNil, delay |-> 0]
         ELSE [pc |-> "return", version |-> resp.Version, err |-> NoErr, delay |-> 0]
    ELSE IF i = retryLimit + 1
         THEN [pc |-> "return", version |-> "",
               err |-> ConsistencyTimeout(resp.err), delay |-> 1]
         ELSE [pc |-> "PublishVersion", version |-> "", err |-> NoErr, delay |-> 1]

\* one iteration of the loop of WaitForConsistency, its counter being i and
\* resp the answer of c.PublishVersion: whether the function returns, what
\* it returns, and how often it called DefaultRetryWaitingPeriod
WaitForConsistency(i, resp) ==
    IF resp.err = NoErr
    THEN IF resp.Version = NilString
         THEN [pc |-> "return", version |-> "", err |-> VersionIsNil, delay |-> 0]
         ELSE [pc |-> "return", version |-> resp.Version, err |-> NoErr, delay |-> 0]
    ELSE IF i = retryLimit
         THEN [pc |-> "return", version |-> "",
               err |-> ConsistencyTimeout(resp.err), delay |-> 1]
         ELSE [pc |-> "PublishVersion", version |-> "", err |-> NoErr, delay |-> 1]

----------------------------------------------------------------------------
(* The state of one Deploy call *)

\* the SDK client's record of its most recent operation: the attempts it has
\* sent and the errors it has answered with another attempt
NoAttempts == [attempts |-> 0, retried |-> {}]

NoFailure == [at |-> "", err |-> NoErr]

\* the Deploy call of a descriptor, at its first remote call
Start(lam, run) ==
    [pc |-> "GetRole",
     l |-> lam,
     run |-> run,
     atStart |-> [role |-> lam.ExecutionRole.RoleName \in roles,
                  function |-> lam.Name \in functions],
     roleAction |-> Nil,
     action |-> Nil,
     idx |-> 1,
     i |-> 0,
     sdk |-> NoAttempts,
     delays |-> 0,
     calls |-> <<>>,
     sent |-> <<>>,
     pkgErr |-> NoErr,
     lastResp |-> NoErr,
     lastVersion |-> NilString,
     failure |-> NoFailure,
     version |-> "",
     invoke |-> Nil,
     result |-> NoErr]

Idle == [pc |-> "idle"]

\* p after the client call op was answered resp
OneAttempt == [attempts |-> 1, retried |-> {}]

Called(p, op, resp) ==
    [p EXCEPT !.calls = Append(@, op), !.lastResp = resp, !.sdk = OneAttempt]

\* p after roleAction.Do passed the command cmd to the IAM client
Sent(p, cmd) == [p EXCEPT !.sent = Append(@, cmd)]

\* p after the phase at p.pc returned err to Lambda.Deploy or Deploy, which
\* goes on with the call next when it does not return
Return(p, err, next) ==
    LET r == IfErrReturn(err, next) IN
    [p EXCEPT !.pc = r.pc, !.result = r.result, !.idx = 1,
              !.failure = IF err # NoErr THEN [at |-> p.pc, err |-> err] ELSE @]

\* p after step s of a Do whose return leads the deployment to the call next
Continue(p, s, next) ==
    IF s.pc = "return" THEN Return(p, s.err, next)
                       ELSE [p EXCEPT !.pc = s.pc, !.idx = s.idx]

Init ==
    /\ roles \in SUBSET {RoleNameOf("test")}
    /\ functions \in SUBSET {"test"}
    /\ attached = [r \in RoleNames |-> {}]
    /\ inlinePolicies = [r \in RoleNames |-> {}]
    /\ grants = [f \in FunctionNames |-> {}]
    /\ \E lam \in Lambdas("test") :
          proc = [d \in Deployers |-> IF d = "d1" THEN Start(lam, 1) ELSE Idle]

----------------------------------------------------------------------------
(* Lambda.Deploy: the execution role *)

\* PrepareRoleAction, and the start of roleAction.Do
GetRole(d) ==
    LET p == proc[d]
        role == p.l.ExecutionRole
    IN
    /\ p.pc = "GetRole"
    /\ \E resp \in GetRoleAnswers(role.RoleName), uuid \in Tokens :
          LET r == PrepareRoleAction(role, resp, uuid)
              q == [Called(p, "GetRole", resp) EXCEPT !.roleAction = r.action]
          IN
          proc' = [proc EXCEPT ![d] =
                     IF r.err # NoErr
                     THEN Return(q, r.err, "GetRole")
                     ELSE Continue(q, RoleDo_Start(r.action), "GetFunction")]
    /\ UNCHANGED <<roles, attached, inlinePolicies, functions, grants>>

\* RoleCreateOrUpdate.Do: client.CreateRole
CreateRole(d) ==
    LET p == proc[d]
        cmd == p.roleAction.CreateRole
    IN
    /\ p.pc = "CreateRole"
    /\ \E resp \in CreateRoleAnswers(cmd.RoleName) :
          /\ roles' = IF resp = NoErr THEN roles \cup {cmd.RoleName} ELSE roles
          /\ proc' = [proc EXCEPT ![d] =
                        Continue(Sent(Called(p, "CreateRole", resp), cmd),
                                 RoleDo_AfterCreateRole(p.roleAction, resp),
                                 "GetFunction")]
    /\ UNCHANGED <<attached, inlinePolicies, functions, grants>>

\* RoleCreateOrUpdate.Do: client.AttachRolePolicy for a.ManagedPolicies[idx]
AttachRolePolicy(d) ==
    LET p == proc[d]
        cmd == p.roleAction.ManagedPolicies[p.idx]
    IN
    /\ p.pc = "AttachRolePolicy"
    /\ \E resp \in RolePolicyAnswers(cmd.RoleName) :
          /\ attached' = IF resp = NoErr
                         THEN [attached EXCEPT ![cmd.RoleName] = @ \cup {cmd.PolicyArn}]
                         ELSE attached
          /\ proc' = [proc EXCEPT ![d] =
                        Continue(Sent(Called(p, "AttachRolePolicy", resp), cmd),
                                 RoleDo_AfterAttach(p.roleAction, p.idx, resp),
                                 "GetFunction")]
    /\ UNCHANGED <<roles, inlinePolicies, functions, grants>>

\* RoleCreateOrUpdate.Do: client.PutRolePolicy for a.InlinePolicies[idx]
PutRolePolicy(d) ==
    LET p == proc[d]
        cmd == p.roleAction.InlinePolicies[p.idx]
    IN
    /\ p.pc = "PutRolePolicy"
    /\ \E resp \in RolePolicyAnswers(cmd.RoleName) :
          /\ inlinePolicies' =
                IF resp = NoErr
                THEN [inlinePolicies EXCEPT ![cmd.RoleName] = @ \cup {cmd.PolicyName}]
                ELSE inlinePolicies
          /\ proc' = [proc EXCEPT ![d] =
                        Continue(Sent(Called(p, "PutRolePolicy", resp), cmd),
                                 RoleDo_AfterPut(p.roleAction, p.idx, resp),
                                 "GetFunction")]
    /\ UNCHANGED <<roles, attached, functions, grants>>

----------------------------------------------------------------------------
(* Lambda.Deploy: the function *)

\* PrepareLambdaAction: Package, then lambdaExists, then the action; and the
\* start of action.Do
GetFunction(d) ==
    LET p == proc[d] IN
    /\ p.pc = "GetFunction"
    /\ \E uuid \in Tokens, pkgErr \in PackageAnswers :
          \E resp \in IF pkgErr = NoErr THEN GetFunctionAnswers(p.l.Name) ELSE {NoErr} :
                LET r == PrepareLambdaAction(p.l, pkgErr, resp, uuid)
                    q == [(IF pkgErr = NoErr THEN Called(p, "GetFunction", resp) ELSE p)
                            EXCEPT !.action = r.action, !.pkgErr = pkgErr]
                IN
                proc' = [proc EXCEPT ![d] =
                           IF r.err # NoErr
                           THEN Return(q, r.err, "GetFunction")
                           ELSE [q EXCEPT !.sdk = NoAttempts,
                                          !.pc = IF r.action.kind = "LambdaCreateAction"
                                                 THEN "CreateFunction"
                                                 ELSE "UpdateFunctionCode"]]
    /\ UNCHANGED <<roles, attached, inlinePolicies, functions, grants>>

\* LambdaCreateAction.Do: one attempt of client.CreateFunction, which the
\* client repeats as its retryer says
CreateFunction(d) ==
    LET p == proc[d] IN
    /\ p.pc = "CreateFunction"
    /\ \E resp \in CreateFunctionAnswers(p.action.Command.FunctionName) :
          LET attempt == p.sdk.attempts + 1
              q == [p EXCEPT
                      !.calls = IF p.sdk.attempts = 0
                                THEN Append(@, "CreateFunction") ELSE @,
                      !.lastResp = resp,
                      !.sdk = [attempts |-> attempt,
                               retried |->
                                  IF resp # NoErr /\ Retries(resp, attempt)
                                  THEN @.retried \cup {resp} ELSE @.retried]]
          IN
          /\ functions' = IF resp = NoErr
                          THEN functions \cup {p.action.Command.FunctionName}
                          ELSE functions
          /\ proc' = [proc EXCEPT ![d] =
                        IF resp # NoErr /\ Retries(resp, attempt)
                        THEN q
                        ELSE Continue(q, LambdaCreateAction_Do(p.action, resp),
                                      "PublishVersion")]
    /\ UNCHANGED <<roles, attached, inlinePolicies, grants>>

\* LambdaCreateAction.Do: client.AddPermission
AddPermission(d) ==
    LET p == proc[d]
        cmd == p.action.ResourcePolicyCommand
    IN
    /\ p.pc = "AddPermission"
    /\ \E resp \in FunctionAnswers(cmd.FunctionName) :
          /\ grants' = IF resp = NoErr
                       THEN [grants EXCEPT ![cmd.FunctionName] = @ \cup {cmd.StatementId}]
                       ELSE grants
          /\ proc' = [proc EXCEPT ![d] =
                        Return(Called(p, "AddPermission", resp), resp, "PublishVersion")]
    /\ UNCHANGED <<roles, attached, inlinePolicies, functions>>

\* LambdaUpdateAction.Do: client.UpdateFunctionCode
UpdateFunctionCode(d) ==
    LET p == proc[d] IN
    /\ p.pc = "UpdateFunctionCode"
    /\ \E resp \in FunctionAnswers(p.action.Command.FunctionName) :
          proc' = [proc EXCEPT ![d] =
                     Continue(Called(p, "UpdateFunctionCode", resp),
                              LambdaUpdateAction_Do(p.action, resp),
                              "PublishVersion")]
    /\ UNCHANGED <<roles, attached, inlinePolicies, functions, grants>>

----------------------------------------------------------------------------
(* Lambda.Test *)

\* WaitForConsistency: one c.PublishVersion and the rest of the iteration
PublishVersion(d) ==
    LET p == proc[d] IN
    /\ p.pc = "PublishVersion"
    /\ \E resp \in PublishVersionAnswers(p.l.Name) :
          LET w == WaitForConsistency(p.i, resp)
              q == [Called(p, "PublishVersion", resp.err) EXCEPT
                      !.delays = @ + w.delay,
                      !.lastVersion = resp.Version]
          IN
          proc' = [proc EXCEPT ![d] =
                     IF w.pc = "return"
                     THEN Return([q EXCEPT !.version = w.version], w.err, "Invoke")
                     ELSE [q EXCEPT !.i = @ + 1]]
    /\ UNCHANGED <<roles, attached, inlinePolicies, functions, grants>>

\* lambdaClient.Invoke, whose error Test and then Deploy return
Invoke(d) ==
    LET p == proc[d] IN
    /\ p.pc = "Invoke"
    /\ \E resp \in FunctionAnswers(p.l.Name) :
          proc' = [proc EXCEPT ![d] =
                     Return([Called(p, "Invoke", resp) EXCEPT
                               !.invoke = InvokeInput(p.l.Name, p.version)],
                            resp, "done")]
    /\ UNCHANGED <<roles, attached, inlinePolicies, functions, grants>>

\* the operator runs Deploy again with the same descriptor
Rerun(d) ==
    LET p == proc[d] IN
    /\ p.pc = "done"
    /\ p.run < MaxRuns
    /\ proc' = [proc EXCEPT ![d] = Start(p.l, p.run + 1)]
    /\ UNCHANGED <<roles, attached, inlinePolicies, functions, grants>>

Next ==
    \E d \in Deployers :
        \/ GetRole(d)
        \/ CreateRole(d)
        \/ AttachRolePolicy(d)
        \/ PutRolePolicy(d)
        \/ GetFunction(d)
        \/ CreateFunction(d)
        \/ AddPermission(d)
        \/ UpdateFunctionCode(d)
        \/ PublishVersion(d)
        \/ Invoke(d)
        \/ Rerun(d)

Spec == Init /\ [][Next]_vars

\* WaitForConsistency is a loop of one thread: once the delay has returned it
\* calls PublishVersion again, and the client answers every call
SpecLive == Spec /\ \A d \in Deployers : WF_vars(PublishVersion(d))

----------------------------------------------------------------------------
(* Properties *)

Active == {d \in Deployers : proc[d].pc # "idle"}
Last(s) == IF Len(s) = 0 THEN "" ELSE s[Len(s)]
Count(s, op) == Cardinality({k \in 1..Len(s) : s[k] = op})
Made(p, op) == \E k \in 1..Len(p.calls) : p.calls[k] = op

\* the phase of a deployment a remote call belongs to
Phase(op) ==
    CASE op = "GetRole" -> 1
      [] op \in {"CreateRole", "AttachRolePolicy", "PutRolePolicy"} -> 2
      [] op = "GetFunction" -> 3
      [] op \in {"CreateFunction", "UpdateFunctionCode", "AddPermission"} -> 4
      [] op = "PublishVersion" -> 5
      [] op = "Invoke" -> 6

\* C1: when the build succeeded and GetFunction has just been answered,
\* PrepareLambdaAction has returned a create action if the answer was
\* "resource not found", an update action if the lookup succeeded, and on
\* any other error that error and no action
C1_PrepareLambdaAction ==
    \A d \in Active :
        LET p == proc[d] IN
        Last(p.calls) = "GetFunction" =>
            /\ ErrorsAs(p.lastResp, "ResourceNotFoundException") =>
                  /\ p.action # Nil
                  /\ p.action.kind = "LambdaCreateAction"
                  /\ p.failure = NoFailure
            /\ p.lastResp = NoErr =>
                  /\ p.action # Nil
                  /\ p.action.kind = "LambdaUpdateAction"
                  /\ p.failure = NoFailure
            /\ (p.lastResp # NoErr
                /\ ~ErrorsAs(p.lastResp, "ResourceNotFoundException")) =>
                  /\ p.action = Nil
                  /\ p.failure = [at |-> "GetFunction", err |-> p.lastResp]
                  /\ p.result = p.lastResp

C1_Witness ==
    \E d \in Active :
        /\ Last(proc[d].calls) = "GetFunction"
        /\ proc[d].lastResp = ResourceNotFound
        /\ proc[d].action # Nil
        /\ proc[d].action.kind = "LambdaCreateAction"

\* C2: when GetRole has just been answered, PrepareRoleAction has staged
\* CreateRole exactly if the answer was NoSuchEntity, never for a role that
\* existed, and in both cases the attachment of AWSLambdaBasicExecutionRole
\* to the role
C2_PrepareRoleAction ==
    \A d \in Active :
        LET p == proc[d]
            role == p.l.ExecutionRole
        IN
        Last(p.calls) = "GetRole" =>
            /\ p.lastResp \in {NoErr, NoSuchEntity} => p.roleAction # Nil
            /\ p.roleAction # Nil =>
                  /\ p.roleAction.CreateRole # Nil
                        <=> ErrorsAs(p.lastResp, "NoSuchEntityException")
                  /\ p.roleAction.CreateRole # Nil =>
                        p.roleAction.CreateRole.RoleName = role.RoleName
                  /\ p.atStart.role => p.roleAction.CreateRole = Nil
                  /\ \E k \in 1..Len(p.roleAction.ManagedPolicies) :
                        p.roleAction.ManagedPolicies[k] =
                           [RoleName |-> role.RoleName,
                            PolicyArn |-> AWSLambdaBasicExecutionRole]

C2_Witness ==
    \E d \in Active :
        /\ Last(proc[d].calls) = "GetRole"
        /\ proc[d].atStart.role
        /\ proc[d].roleAction # Nil
        /\ proc[d].roleAction.CreateRole = Nil
        /\ Len(proc[d].roleAction.ManagedPolicies) >= 1

\* the remote calls of a successful deployment, in their phases
PhasesOf(calls) == [k \in 1..Len(calls) |-> Phase(calls[k])]

\* C3: the remote calls of a deployment are made in the order of the phases
\* (prepare role, execute role action, prepare function action, execute
\* function action, wait for consistency, invoke); once a phase has returned
\* an error the deployment has returned that error and has made no call of a
\* later phase; a deployment that returns without error has gone through
\* every phase
C3_PhasesInOrder ==
    \A d \in Active :
        LET p == proc[d] IN
        /\ \A k \in 1..(Len(p.calls) - 1) :
              Phase(p.calls[k]) <= Phase(p.calls[k + 1])
        /\ p.failure # NoFailure =>
              /\ p.pc = "done"
              /\ p.result = p.failure.err
              /\ p.result # NoErr
              /\ \A k \in 1..Len(p.calls) : Phase(p.calls[k]) <= Phase(p.failure.at)
              /\ p.failure.at \notin {"GetFunction", "PublishVersion"} =>
                    p.result = p.lastResp
        /\ (p.pc = "done" /\ p.failure = NoFailure) =>
              /\ p.result = NoErr
              /\ {Phase(p.calls[k]) : k \in 1..Len(p.calls)} = 1..6

C3_Witness ==
    \E d \in Active :
        /\ proc[d].pc = "done"
        /\ proc[d].failure.at = "CreateFunction"
        /\ proc[d].result = LambdaServiceFailure
        /\ Made(proc[d], "AttachRolePolicy")
        /\ ~Made(proc[d], "PublishVersion")

\* C4: a deployment that starts when its role and its function exist makes
\* no CreateRole and no CreateFunction call and at most one
\* UpdateFunctionCode call, exactly one once its function action has been
\* executed; the role and the function stay in place
C4_RerunUpdates ==
    \A d \in Active :
        LET p == proc[d] IN
        (p.atStart.role /\ p.atStart.function) =>
            /\ ~Made(p, "CreateRole")
            /\ ~Made(p, "CreateFunction")
            /\ Count(p.calls, "UpdateFunctionCode") <= 1
            /\ (p.pc \in {"PublishVersion", "Invoke"}
                \/ (p.pc = "done" /\ p.result = NoErr)) =>
                  Count(p.calls, "UpdateFunctionCode") = 1
            /\ p.l.Name \in functions
            /\ p.l.ExecutionRole.RoleName \in roles

C4_Witness ==
    \E d \in Active :
        /\ proc[d].run = 2
        /\ proc[d].atStart.role
        /\ proc[d].atStart.function
        /\ proc[d].pc = "done"
        /\ proc[d].result = NoErr
        /\ Count(proc[d].calls, "UpdateFunctionCode") = 1

\* C5: once the update action of a deployment with a staged grant has
\* updated the function code, the grant has been sent with AddPermission
C5_UpdateReappliesGrant ==
    \A d \in Active :
        LET p == proc[d] IN
        (/\ p.action # Nil
         /\ p.action.kind = "LambdaUpdateAction"
         /\ p.action.ResourcePolicyCommand # Nil
         /\ p.pc \in {"PublishVersion", "Invoke"}) =>
            Made(p, "AddPermission")

\* C6: a deployment whose Resource Permission has an empty principal stages
\* no grant, never calls AddPermission and leaves the function without
\* grant; its create action returns success as soon as CreateFunction does
C6_EmptyPrincipalNoGrant ==
    \A d \in Active :
        LET p == proc[d] IN
        p.l.ResourcePolicy.Principal = "" =>
            /\ CreateLambdaResourcePolicy(p.l, "DEADBEEF") = Nil
            /\ p.action # Nil => p.action.ResourcePolicyCommand = Nil
            /\ ~Made(p, "AddPermission")
            /\ p.pc # "AddPermission"
            /\ grants[p.l.Name] = {}
            /\ (Last(p.calls) = "CreateFunction" /\ p.lastResp = NoErr) =>
                  /\ p.pc = "PublishVersion"
                  /\ p.failure = NoFailure

C6_Witness ==
    \E d \in Active :
        /\ proc[d].l.ResourcePolicy.Principal = ""
        /\ proc[d].action # Nil
        /\ proc[d].action.kind = "LambdaCreateAction"
        /\ Last(proc[d].calls) = "CreateFunction"
        /\ proc[d].lastResp = NoErr
        /\ proc[d].pc = "PublishVersion"

\* CreateFunction has answered a role-not-assumable error to the first two
\* attempts of the create action and success to the third
C7_Scenario(p) ==
    /\ p.action # Nil
    /\ p.action.kind = "LambdaCreateAction"
    /\ Last(p.calls) = "CreateFunction"
    /\ p.sdk.attempts = 3
    /\ p.sdk.retried = {RoleNotAssumable}
    /\ p.lastResp = NoErr

C8_OtherErrorsFatalImmediately ==
    \A d \in Active :
        LET p == proc[d] IN
        (Last(p.calls) = "CreateFunction"
         /\ p.lastResp \notin {NoErr, RoleNotAssumable}) =>
            /\ p.pc = "done"
            /\ p.result = p.lastResp
            /\ p.sdk.retried \subseteq {RoleNotAssumable}
            /\ p.sdk.retried = {} => p.sdk.attempts = 1
            /\ p.delays = 0
            /\ ~Made(p, "AddPermission")

\* C9: when PublishVersion succeeds with a version after N failures, and N
\* is at most the retry budget, WaitForConsistency returns that version and
\* no error; it returns the timeout error and no version only when
\* PublishVersion has failed on every call and more often than the budget
C9_WaitForConsistency ==
    \A d \in Active :
        LET p == proc[d] IN
        /\ (Last(p.calls) = "PublishVersion" /\ p.lastResp = NoErr
            /\ p.lastVersion # NilString) =>
              /\ p.delays <= retryLimit
              /\ p.version = p.lastVersion
              /\ p.failure = NoFailure
              /\ p.pc = "Invoke"
        /\ (Last(p.calls) = "PublishVersion" /\ p.lastResp # NoErr) =>
              /\ p.delays = Count(p.calls, "PublishVersion")
              /\ p.version = ""
              /\ p.delays <= retryLimit =>
                    (p.pc = "PublishVersion" /\ p.failure = NoFailure)
              /\ p.delays > retryLimit =>
                    /\ p.pc = "done"
                    /\ p.failure.at = "PublishVersion"
                    /\ p.result = ConsistencyTimeout(p.lastResp)

C9_Witness ==
    \E d \in Active :
        /\ Last(proc[d].calls) = "PublishVersion"
        /\ proc[d].delays = retryLimit - 1
        /\ proc[d].lastResp = NoErr
        /\ proc[d].version = "2"
        /\ proc[d].pc = "Invoke"

\* C10: the error WaitForConsistency returns when its budget is spent wraps
\* the error of the last PublishVersion
C10_TimeoutWrapsLastError ==
    \A d \in Active :
        LET p == proc[d] IN
        (p.failure.at = "PublishVersion" /\ p.lastResp # NoErr) =>
            /\ p.result # NoErr
            /\ ErrorsAs(p.result, p.lastResp.type)

\* C11: Invoke is called at most once, and only after the last
\* PublishVersion has succeeded with a version; its input names the function,
\* is qualified by the version PublishVersion returned and is a dry run; a
\* deployment whose consistency wait has failed never calls Invoke; the
\* deployment returns what Invoke answered, an error included, and the
\* function then exists
C11_TestInvokesPublishedVersion ==
    \A d \in Active :
        LET p == proc[d] IN
        /\ Count(p.calls, "Invoke") <= 1
        /\ (p.pc = "Invoke" \/ Made(p, "Invoke")) =>
              /\ Made(p, "PublishVersion")
              /\ p.lastVersion \in Versions
              /\ p.version = p.lastVersion
              /\ p.failure.at # "PublishVersion"
        /\ Made(p, "Invoke") =>
              /\ Last(p.calls) = "Invoke"
              /\ p.invoke = [FunctionName |-> p.l.Name,
                             Qualifier |-> p.lastVersion,
                             InvocationType |-> "DryRun"]
              /\ p.pc = "done"
              /\ p.result = p.lastResp
              /\ p.lastResp # NoErr =>
                    (p.failure.at = "Invoke" /\ p.l.Name \in functions)
        /\ ~Made(p, "Invoke") => p.invoke = Nil
        /\ p.failure.at = "PublishVersion" =>
              (~Made(p, "Invoke") /\ p.pc = "done" /\ p.result # NoErr)

C11_Witness ==
    \E d \in Active :
        /\ Made(proc[d], "Invoke")
        /\ proc[d].delays >= 1
        /\ proc[d].invoke.Qualifier = "2"
        /\ proc[d].pc = "done"
        /\ proc[d].result = LambdaServiceFailure
        /\ proc[d].l.Name \in functions

\* the commands a role action holds, in the order Do is to send them
Staged(a) ==
    (IF a.CreateRole # Nil THEN <<a.CreateRole>> ELSE <<>>)
    \o a.ManagedPolicies \o a.InlinePolicies

\* the call that sends the k-th command of Staged(a)
StagedOp(a, k) ==
    LET c == IF a.CreateRole # Nil THEN 1 ELSE 0 IN
    IF k <= c THEN "CreateRole"
    ELSE IF k <= c + Len(a.ManagedPolicies) THEN "AttachRolePolicy"
    ELSE "PutRolePolicy"

IsPrefix(s, t) == Len(s) <= Len(t) /\ \A k \in 1..Len(s) : s[k] = t[k]

RoleCalls(p) == SelectSeq(p.calls, LAMBDA op : Phase(op) = 2)

RoleOps == {"CreateRole", "AttachRolePolicy", "PutRolePolicy"}

\* roleAction.Do has returned without error
RoleDoSucceeded(p) ==
    /\ p.roleAction # Nil
    /\ p.pc \notin RoleOps
    /\ p.failure.at \notin RoleOps \cup {"GetRole"}

\* C12: the calls of RoleCreateOrUpdate.Do send the staged commands in the
\* order CreateRole (if staged), the managed policies in list order, the
\* inline policies; a Do that returned without error has sent all of them,
\* once each; a call that fails is the last one and its error is returned
C12_RoleDoOrder ==
    \A d \in Active :
        LET p == proc[d]
            a == p.roleAction
        IN
        /\ a = Nil => p.sent = <<>>
        /\ a # Nil =>
              /\ IsPrefix(p.sent, Staged(a))
              /\ RoleCalls(p) = [k \in 1..Len(p.sent) |-> StagedOp(a, k)]
              /\ RoleDoSucceeded(p) =>
                    /\ p.sent = Staged(a)
                    /\ Len(RoleCalls(p)) =
                          (IF a.CreateRole # Nil THEN 1 ELSE 0)
                          + Len(a.ManagedPolicies) + Len(a.InlinePolicies)
        /\ (Last(p.calls) \in RoleOps /\ p.lastResp # NoErr) =>
              /\ p.pc = "done"
              /\ p.failure.at = Last(p.calls)
              /\ p.result = p.lastResp

C12_Witness ==
    \E d \in Active :
        /\ RoleDoSucceeded(proc[d])
        /\ proc[d].pc = "GetFunction"
        /\ proc[d].roleAction.CreateRole # Nil
        /\ proc[d].l.ExecutionRole.ManagedPolicies =
              <<IAMFullAccess, AWSLambdaBasicExecutionRole>>
        /\ Len(proc[d].roleAction.InlinePolicies) = 1
        /\ Len(proc[d].sent) = 5

\* C13: when GetRole has failed with an error other than NoSuchEntity, the
\* deployment has returned that error, PrepareRoleAction has returned no
\* action, and GetRole is the only call the deployment has made
C13_RoleLookupErrorIsFatal ==
    \A d \in Active :
        LET p == proc[d] IN
        (/\ Last(p.calls) = "GetRole"
         /\ p.lastResp # NoErr
         /\ ~ErrorsAs(p.lastResp, "NoSuchEntityException")) =>
            /\ p.roleAction = Nil
            /\ p.pc = "done"
            /\ p.failure = [at |-> "GetRole", err |-> p.lastResp]
            /\ p.result = p.lastResp
            /\ p.calls = <<"GetRole">>
            /\ p.sent = <<>>

C13_Witness ==
    \E d \in Active :
        /\ proc[d].pc = "done"
        /\ proc[d].calls = <<"GetRole">>
        /\ proc[d].result = IAMServiceFailure
        /\ proc[d].roleAction = Nil
        /\ ~proc[d].atStart.role

\* C14: the attachments PrepareRoleAction stages are the baseline
\* basic-execution policy first, then one per managed policy of the
\* execution role in the order of its list, each for the role's name: one
\* more than the role has managed policies
C14_StagedAttachments ==
    \A d \in Active :
        LET p == proc[d]
            role == p.l.ExecutionRole
        IN
        p.roleAction # Nil =>
            /\ Len(p.roleAction.ManagedPolicies) = 1 + Len(role.ManagedPolicies)
            /\ p.roleAction.ManagedPolicies[1] =
                  [RoleName |-> role.RoleName,
                   PolicyArn |-> AWSLambdaBasicExecutionRole]
            /\ \A k \in 1..Len(role.ManagedPolicies) :
                  p.roleAction.ManagedPolicies[k + 1] =
                     [RoleName |-> role.RoleName,
                      PolicyArn |-> role.ManagedPolicies[k]]

C14_Witness ==
    \E d \in Active :
        /\ Last(proc[d].calls) = "GetRole"
        /\ proc[d].roleAction # Nil
        /\ proc[d].l.ExecutionRole.ManagedPolicies =
              <<IAMFullAccess, AWSLambdaBasicExecutionRole>>
        /\ Len(proc[d].roleAction.ManagedPolicies) = 3
        /\ proc[d].roleAction.ManagedPolicies[2].PolicyArn = IAMFullAccess

\* C15: PrepareRoleAction stages no inline policy for an execution role
\* whose inline document is empty, and otherwise exactly one PutRolePolicy
\* command, named glambda_inline_policy_ followed by the generated token and
\* carrying the document and the role's name; PutRolePolicy is called for no
\* other command
C15_InlinePolicyStaged ==
    \A d \in Active :
        LET p == proc[d]
            role == p.l.ExecutionRole
        IN
        /\ p.roleAction # Nil =>
              /\ role.InLinePolicy = "" => p.roleAction.InlinePolicies = <<>>
              /\ role.InLinePolicy # "" =>
                    /\ Len(p.roleAction.InlinePolicies) = 1
                    /\ \E uuid \in Tokens :
                          p.roleAction.InlinePolicies[1] =
                             [PolicyName |-> "glambda_inline_policy_" \o uuid,
                              PolicyDocument |-> role.InLinePolicy,
                              RoleName |-> role.RoleName]
        /\ (p.pc = "PutRolePolicy" \/ Made(p, "PutRolePolicy")) =>
              /\ role.InLinePolicy # ""
              /\ Count(p.calls, "PutRolePolicy") <= 1

C15_Witness ==
    \E d \in Active :
        /\ proc[d].roleAction # Nil
        /\ proc[d].l.ExecutionRole.InLinePolicy = "inline policy document"
        /\ proc[d].roleAction.InlinePolicies[1].PolicyName =
              "glambda_inline_policy_DEADBEEF"
        /\ Made(proc[d], "PutRolePolicy")
        /\ proc[d].lastResp = NoErr

IAMOps == {"GetRole"} \cup RoleOps
FunctionOps == {"CreateFunction", "UpdateFunctionCode", "AddPermission"}
LambdaOps == {"GetFunction", "Invoke"} \cup FunctionOps
DeployOps == IAMOps \cup LambdaOps \cup {"PublishVersion"}

\* C17 as stated: the build comes first, so a deployment whose build has
\* failed has made no call of the identity service and has created or
\* modified no role
C17_BuildBeforeRole ==
    \A d \in Active :
        LET p == proc[d] IN
        p.pkgErr # NoErr =>
            /\ \A k \in 1..Len(p.calls) : p.calls[k] \notin IAMOps
            /\ p.sent = <<>>

\* C17 as amended: the build is the first step of preparing the function
\* action: it runs once the role action has returned without error, having
\* sent all its commands, and before the lookup of the function; a
\* deployment whose build has failed has returned the error of the build,
\* has made no call of the Lambda service, and its role exists
C17_BuildAfterRole ==
    \A d \in Active :
        LET p == proc[d] IN
        /\ p.pkgErr # NoErr =>
              /\ p.pc = "done"
              /\ p.result = p.pkgErr
              /\ p.failure = [at |-> "GetFunction", err |-> p.pkgErr]
              /\ p.action = Nil
              /\ RoleDoSucceeded(p)
              /\ p.sent = Staged(p.roleAction)
              /\ p.l.ExecutionRole.RoleName \in roles
              /\ \A k \in 1..Len(p.calls) : p.calls[k] \in IAMOps
        /\ (\E k \in 1..Len(p.calls) : p.calls[k] \in LambdaOps) => p.pkgErr = NoErr

C17_Witness ==
    \E d \in Active :
        /\ proc[d].pkgErr = BuildError
        /\ proc[d].pc = "done"
        /\ proc[d].result = BuildError
        /\ ~proc[d].atStart.role
        /\ Made(proc[d], "CreateRole")
        /\ proc[d].l.ExecutionRole.RoleName \in roles

\* the phase of a deployment the claims name for the call at
PhaseGroup(at) ==
    CASE at \in IAMOps -> "role provisioning"
      [] at \in {"GetFunction"} \cup FunctionOps -> "function provisioning"
      [] at = "PublishVersion" -> "consistency wait"
      [] at = "Invoke" -> "validating invoke"

\* C18: the result of a deployment that failed with a service failure of
\* Lambda identifies the phase that failed: it differs from the result of a
\* deployment in which a call of another phase fails with the same error
C18_ResultIdentifiesPhase ==
    \A d \in Active :
        LET p == proc[d] IN
        (/\ p.pc = "done"
         /\ p.failure.at \in LambdaOps
         /\ p.failure.err = LambdaServiceFailure) =>
            \A at \in LambdaOps :
                PhaseGroup(at) # PhaseGroup(p.failure.at) =>
                    Return([p EXCEPT !.pc = at], LambdaServiceFailure, "done").result
                        # p.result

Provider == <<roles, attached, inlinePolicies, functions, grants>>

\* a step in which PrepareRoleAction or PrepareLambdaAction runs
ConstructionStep(d) ==
    /\ proc[d].pc \in {"GetRole", "GetFunction"}
    /\ proc'[d] # proc[d]

\* the calls of a deployment that change the provider are those its actions
\* stage, each made at most once
C19_CallsOfDo ==
    \A d \in Active :
        LET p == proc[d] IN
        /\ Count(p.calls, "GetRole") <= 1
        /\ Count(p.calls, "GetFunction") <= 1
        /\ p.roleAction = Nil => \A k \in 1..Len(p.calls) : p.calls[k] \notin RoleOps
        /\ p.roleAction # Nil =>
              /\ Count(p.calls, "CreateRole")
                    <= (IF p.roleAction.CreateRole # Nil THEN 1 ELSE 0)
              /\ Count(p.calls, "AttachRolePolicy") <= Len(p.roleAction.ManagedPolicies)
              /\ Count(p.calls, "PutRolePolicy") <= Len(p.roleAction.InlinePolicies)
        /\ p.action = Nil => \A k \in 1..Len(p.calls) : p.calls[k] \notin FunctionOps
        /\ p.action # Nil =>
              /\ Count(p.calls, "CreateFunction")
                    <= (IF p.action.kind = "LambdaCreateAction" THEN 1 ELSE 0)
              /\ Count(p.calls, "UpdateFunctionCode")
                    <= (IF p.action.kind = "LambdaUpdateAction" THEN 1 ELSE 0)
              /\ Count(p.calls, "AddPermission")
                    <= (IF p.action.ResourcePolicyCommand # Nil THEN 1 ELSE 0)
        /\ (p.pc = "done" /\ p.result = NoErr) =>
              /\ Len(RoleCalls(p)) = Len(Staged(p.roleAction))
              /\ Count(p.calls, "CreateFunction") + Count(p.calls, "UpdateFunctionCode") = 1

\* C19: a step that constructs an action (PrepareRoleAction with its GetRole,
\* PrepareLambdaAction with its GetFunction) leaves the provider unchanged,
\* and CreateRole, AttachRolePolicy, PutRolePolicy, CreateFunction,
\* UpdateFunctionCode and AddPermission are called only for a command a
\* constructed action holds, once per command in a deployment
C19_ConstructionChangesNothing ==
    /\ [][\A d \in Deployers : ConstructionStep(d) => UNCHANGED Provider]_vars
    /\ []C19_CallsOfDo

C19_Witness ==
    \E d \in Active :
        /\ proc[d].pc = "done"
        /\ proc[d].result = NoErr
        /\ ~proc[d].atStart.role
        /\ ~proc[d].atStart.function
        /\ Count(proc[d].calls, "CreateRole") = 1
        /\ Count(proc[d].calls, "CreateFunction") = 1
        /\ Count(proc[d].calls, "AddPermission") = 1
        /\ Count(proc[d].calls, "AttachRolePolicy") = 3

\* C20: when a deployment has failed in the preparation or the execution of
\* its function action, in the consistency wait or in the invocation, its
\* role exists with every managed policy and every inline policy its role
\* action sent, and the deployment has made no call other than those of
\* provisioning: nothing is deleted or detached
C20_NoCompensation ==
    \A d \in Active :
        LET p == proc[d]
            a == p.roleAction
            rn == p.l.ExecutionRole.RoleName
        IN
        (p.failure.at \in LambdaOps \cup {"PublishVersion"}) =>
            /\ p.pc = "done"
            /\ rn \in roles
            /\ \A k \in 1..Len(a.ManagedPolicies) :
                  a.ManagedPolicies[k].PolicyArn \in attached[rn]
            /\ \A k \in 1..Len(a.InlinePolicies) :
                  a.InlinePolicies[k].PolicyName \in inlinePolicies[rn]
            /\ \A k \in 1..Len(p.calls) : p.calls[k] \in DeployOps
            /\ \A k \in 1..Len(p.calls) : Phase(p.calls[k]) <= Phase(p.failure.at)

C20_Witness ==
    \E d \in Active :
        /\ proc[d].failure.at = "CreateFunction"
        /\ proc[d].result = LambdaServiceFailure
        /\ ~proc[d].atStart.role
        /\ Made(proc[d], "CreateRole")
        /\ proc[d].l.ExecutionRole.RoleName \in roles
        /\ IAMFullAccess \in attached[proc[d].l.ExecutionRole.RoleName]
        /\ inlinePolicies[proc[d].l.ExecutionRole.RoleName] # {}


----------------------------------------------------------------------------
(* Two deployments of different function names, each by a process of its   *)
(* own, against a provider account that holds neither role nor function.   *)

\* the descriptors of the two Deploy calls: NewLambda gives both the role
\* name of the lower-cased function name
TwoLambdas ==
    [d1 |-> Lambda("Test", <<AWSLambdaBasicExecutionRole>>,
                   "inline policy document", "", NilString),
     d2 |-> WithSourceArn(Lambda("test", <<AWSLambdaBasicExecutionRole>>, "",
                                 "s3.amazonaws.com", AccountID))]

InitTwo ==
    /\ roles = {}
    /\ functions = {}
    /\ attached = [r \in RoleNames |-> {}]
    /\ inlinePolicies = [r \in RoleNames |-> {}]
    /\ grants = [f \in FunctionNames |-> {}]
    /\ proc = [d \in Deployers |-> Start(TwoLambdas[d], 1)]

\* the calls of Lambda.Deploy, of either process in any order
NextTwo ==
    \E d \in Deployers :
        \/ GetRole(d)
        \/ CreateRole(d)
        \/ AttachRolePolicy(d)
        \/ PutRolePolicy(d)
        \/ GetFunction(d)
        \/ CreateFunction(d)
        \/ AddPermission(d)

SpecTwo == InitTwo /\ [][NextTwo]_vars

\* two calls of Deploy for the same function name and descriptor, in an
\* account that holds neither the function nor its role
SameLambda ==
    WithSourceArn(Lambda("test", <<AWSLambdaBasicExecutionRole>>,
                         "inline policy document", "s3.amazonaws.com", AccountID))

InitSame ==
    /\ roles = {}
    /\ functions = {}
    /\ attached = [r \in RoleNames |-> {}]
    /\ inlinePolicies = [r \in RoleNames |-> {}]
    /\ grants = [f \in FunctionNames |-> {}]
    /\ proc = [d \in Deployers |-> Start(SameLambda, 1)]

\* the calls of Lambda.Deploy up to the end of action.Do, of either process
\* in any order
NextSame ==
    \E d \in Deployers :
        \/ GetRole(d)
        \/ CreateRole(d)
        \/ AttachRolePolicy(d)
        \/ PutRolePolicy(d)
        \/ GetFunction(d)
        \/ CreateFunction(d)
        \/ AddPermission(d)
        \/ UpdateFunctionCode(d)

SpecSame == InitSame /\ [][NextSame]_vars

\* C21: two deployments with different function names work on a function
\* and an execution role of their own each, so a deployment that found no
\* role of its name creates it without meeting a role another deployment
\* made: no interleaving gives it an outcome it cannot have alone.
C21_DisjointDeployments ==
    \A d \in Deployers : \A e \in Deployers \ {d} :
        LET p == proc[d] IN
        proc[e].l.Name # p.l.Name =>
            /\ Made(p, "CreateRole") =>
                  p.l.ExecutionRole.RoleName # proc[e].l.ExecutionRole.RoleName
            /\ p.result # EntityAlreadyExists


----------------------------------------------------------------------------
(* The retry rule *)

\* the errors a client call can hand to the retryer: the provider's errors,
\* bare and wrapped in the client's operation error
RetryerInputs ==
    LET provider == {NoSuchEntity, EntityAlreadyExists, IAMServiceFailure,
                     ResourceNotFound, ResourceConflict, LambdaServiceFailure,
                     RoleNotAssumable, OtherInvalidParameter, NotYetConsistent}
    IN provider \cup {OperationError(op, e) :
                        op \in {"GetFunction", "CreateFunction"}, e \in provider}

----------------------------------------------------------------------------
(* Strings of the policy parsers. A string is the sequence of its atoms:   *)
(* a character that a filter removes, or that a pattern or a prefix test   *)
(* of the program can tell from its neighbours, is an atom of its own; a   *)
(* run of characters inside which no pattern can begin or end and which no *)
(* filter changes is one atom. Join gives the string itself.               *)

Q == "\""
Apostrophe == "'"
Whitespace == {" ", "\n", "\t"}

RECURSIVE Join(_)
Join(s) == IF s = <<>> THEN "" ELSE Head(s) \o Join(Tail(s))

\* the strings of a list, each joined
JoinEach(list) == [k \in 1..Len(list) |-> Join(list[k])]

removeQuotes(s) == SelectSeq(s, LAMBDA a : a \notin {Q, Apostrophe})

removeWhitespace(s) == SelectSeq(s, LAMBDA a : a \notin Whitespace)

\* strings.Split(s, ","): the pieces between the commas, one piece for a
\* string without comma
RECURSIVE Split(_)
Split(s) ==
    LET commas == {i \in 1..Len(s) : s[i] = ","} IN
    IF commas = {} THEN <<s>>
    ELSE LET i == CHOOSE c \in commas : \A e \in commas : c <= e IN
         <<SubSeq(s, 1, i - 1)>> \o Split(SubSeq(s, i + 1, Len(s)))

HasPrefix(s, prefix) ==
    Len(s) >= Len(prefix) /\ SubSeq(s, 1, Len(prefix)) = prefix

\* whether the literal text lit stands in s at position i
MatchAt(s, i, lit) ==
    i >= 1 /\ i + Len(lit) - 1 <= Len(s) /\ SubSeq(s, i, i + Len(lit) - 1) = lit

\* the least member of a non-empty set of positions
Leftmost(S) == CHOOSE i \in S : \A j \in S : i <= j


----------------------------------------------------------------------------
(* The policy parsers *)

ArnPrefix == <<"a", "r", "n", ":">>
\* "arn:aws:iam::aws:policy/"
PolicyNamespace == ArnPrefix \o <<"aws:iam::aws:policy/">>

expandedPolicyArns_AlwaysPrefixes(policy) ==
    IF policy = <<>> THEN <<>>
    ELSE LET policies == Split(removeQuotes(removeWhitespace(policy))) IN
         [k \in 1..Len(policies) |-> PolicyNamespace \o policies[k]]

\* the list ParseManagedPolicy builds
expandedPolicyArns(policy) ==
    IF policy = <<>> THEN <<>>
    ELSE LET policies == Split(removeQuotes(removeWhitespace(policy))) IN
         [k \in 1..Len(policies) |->
            IF HasPrefix(policies[k], ArnPrefix)
            THEN policies[k]
            ELSE PolicyNamespace \o policies[k]]

ParseManagedPolicy(policy) == JoinEach(expandedPolicyArns(policy))

\* json.Marshal of a Go string: its JSON string literal; no string fails
jsonMarshal(v) ==
    LET escape(a) == IF a = Q THEN "\\\"" ELSE IF a = "\n" THEN "\\n"
                     ELSE IF a = "\t" THEN "\\t" ELSE a
    IN [out |-> <<Q>> \o [k \in 1..Len(v) |-> escape(v[k])] \o <<Q>>,
        err |-> NoErr]

ParseInlinePolicy(policy) ==
    IF policy = <<>>
    THEN [policy |-> "", err |-> Error("errorString", "inlinePolicy is empty")]
    ELSE LET m == jsonMarshal(policy) IN
         IF m.err # NoErr
         THEN [policy |-> "",
               err |-> [type |-> "wrapError",
                        msg |-> "parsing failure for inlinePolicy",
                        wraps |-> m.err.type]]
         ELSE [policy |-> Join(removeWhitespace(policy)), err |-> NoErr]

\* principalRegex.FindStringSubmatch: the leftmost "Principal":{ that is
\* followed by "AWS":[ and the nearest ]} or by "Service":" and the nearest
\* "}, with the text in between as submatch 2 or 4
principalRegex(s) ==
    LET awsEnds(i) ==
            IF MatchAt(s, i + 5, <<Q, "AWS", Q, ":", "[">>)
            THEN {k \in (i + 10)..(Len(s) - 1) : s[k] = "]" /\ s[k + 1] = "}"}
            ELSE {}
        serviceEnds(i) ==
            IF MatchAt(s, i + 5, <<Q, "Service", Q, ":", Q>>)
            THEN {k \in (i + 10)..(Len(s) - 1) : s[k] = Q /\ s[k + 1] = "}"}
            ELSE {}
        starts == {i \in 1..Len(s) :
                     /\ MatchAt(s, i, <<Q, "Principal", Q, ":", "{">>)
                     /\ awsEnds(i) \cup serviceEnds(i) # {}}
    IN
    IF starts = {} THEN [matched |-> FALSE, AWS |-> <<>>, Service |-> <<>>]
    ELSE LET i == Leftmost(starts) IN
         IF awsEnds(i) # {}
         THEN [matched |-> TRUE,
               AWS |-> SubSeq(s, i + 10, Leftmost(awsEnds(i)) - 1),
               Service |-> <<>>]
         ELSE [matched |-> TRUE,
               AWS |-> <<>>,
               Service |-> SubSeq(s, i + 10, Leftmost(serviceEnds(i)) - 1)]

\* the three condition patterns: "<operator>":{"<key>":" followed by one or
\* more characters other than the quote, then "}
conditionRegex(s, operator, key) ==
    LET lit == <<Q, operator, Q, ":", "{", Q, key, Q, ":", Q>>
        from(i) == i + Len(lit)
        quotes(i) == {k \in from(i)..Len(s) : s[k] = Q}
        matches(i) ==
            /\ MatchAt(s, i, lit)
            /\ quotes(i) # {}
            /\ LET k == Leftmost(quotes(i)) IN
               k > from(i) /\ k + 1 <= Len(s) /\ s[k + 1] = "}"
        starts == {i \in 1..Len(s) : matches(i)}
    IN
    IF starts = {} THEN [matched |-> FALSE, value |-> <<>>]
    ELSE LET i == Leftmost(starts) IN
         [matched |-> TRUE,
          value |-> SubSeq(s, from(i), Leftmost(quotes(i)) - 1)]

arnConditionRegex(s) == conditionRegex(s, "ArnLike", "AWS:SourceArn")
accountConditionRegex(s) == conditionRegex(s, "StringEquals", "AWS:SourceAccount")
orgIdConditionRegex(s) == conditionRegex(s, "StringEquals", "aws:PrincipalOrgID")

\* the zero value of ResourcePolicy
NoResourcePolicy ==
    [Principal |-> "",
     SourceAccountCondition |-> NilString,
     SourceArnCondition |-> NilString,
     PrincipalOrgIdCondition |-> NilString]

ParseResourcePolicy_AcceptsAnything(document) ==
    [policy |-> NoResourcePolicy, err |-> NoErr]

ParseResourcePolicy(document) ==
    LET policy == removeWhitespace(document)
        principalMatch == principalRegex(policy)
        condition(match) == IF match.matched THEN Join(match.value) ELSE NilString
    IN
    IF ~principalMatch.matched
    THEN [policy |-> NoResourcePolicy,
          err |-> Error("errorString", "principal not found in resource policy")]
    ELSE [policy |->
            [Principal |->
                IF principalMatch.AWS # <<>>
                THEN "{AWS:[" \o Join(principalMatch.AWS) \o "]}"
                ELSE IF principalMatch.Service # <<>>
                THEN "{Service:" \o Join(principalMatch.Service) \o "}"
                ELSE "",
             SourceAccountCondition |-> condition(accountConditionRegex(policy)),
             SourceArnCondition |-> condition(arnConditionRegex(policy)),
             PrincipalOrgIdCondition |-> condition(orgIdConditionRegex(policy))],
          err |-> NoErr]


----------------------------------------------------------------------------
(* The documents the deploy options are given *)

MaxEntries == 2
MaxPrincipals == 2

Key(k) == <<Q, k, Q>>
Quoted(v) == <<Q>> \o v \o <<Q>>

RECURSIVE CommaSeparated(_)
CommaSeparated(list) ==
    IF list = <<>> THEN <<>>
    ELSE IF Len(list) = 1 THEN list[1]
    ELSE list[1] \o <<",">> \o CommaSeparated(Tail(list))

\* a document laid out with a blank after every colon and comma and a line
\* break after every opening brace
RECURSIVE Spaced(_)
Spaced(s) ==
    IF s = <<>> THEN <<>>
    ELSE (IF Head(s) \in {":", ","} THEN <<Head(s), " ">>
          ELSE IF Head(s) = "{" THEN <<Head(s), "\n">>
          ELSE <<Head(s)>>) \o Spaced(Tail(s))

\* one entry of a managed-policy list: a bare name, a full ARN, a quoted
\* name between blanks, a quoted ARN broken by a line break
ManagedPolicyEntries ==
    { <<"IAMFullAccess">>,
      ArnPrefix \o <<"aws:iam::aws:policy/", "IAMFullAccess">>,
      <<" ", Q, "AmazonS3FullAccess", Q, " ">>,
      <<Apostrophe, "a", "r", "\n", "n", ":", "aws:iam::aws:policy/",
        "AmazonS3FullAccess", Apostrophe>> }

ManagedPolicyInputs ==
    {CommaSeparated(list) : list \in SeqUpTo(ManagedPolicyEntries, MaxEntries)}
    \cup {<<" ">>, <<"IAMFullAccess", ",">>}

\* the empty string, an inline policy document laid out over several lines,
\* and a document with an unterminated string
InlinePolicyDocument ==
    <<"{">> \o Key("Version") \o <<":">> \o Quoted(<<"2012-10-17">>) \o <<"}">>
InlinePolicyInputs ==
    { <<>>, Spaced(InlinePolicyDocument),
      <<"{", Q, "invalid", Q, ":", " ", Q, "json", "}">> }

\* the principals of a Resource Permission document: none, a list of
\* accounts, a named service
AccountIDs == {"123456789012", "555555555555"}
Principals ==
    {[kind |-> "none"]}
    \cup {[kind |-> "AWS", list |-> list] : list \in SeqUpTo(AccountIDs, MaxPrincipals)}
    \cup {[kind |-> "Service", name |-> name] : name \in {<<"s3.amazonaws.com">>, <<>>}}

\* the conditions of a document and the value each is written with
Conditions == {"SourceArn", "SourceAccount", "PrincipalOrgID"}
ConditionValue ==
    [SourceArn |-> "arn:aws:s3:::bucket",
     SourceAccount |-> AccountID,
     PrincipalOrgID |-> "o-a1b2c3d4e5"]
ConditionKey ==
    [SourceArn |-> "AWS:SourceArn",
     SourceAccount |-> "AWS:SourceAccount",
     PrincipalOrgID |-> "aws:PrincipalOrgID"]

Member(c) == Key(ConditionKey[c]) \o <<":">> \o Quoted(<<ConditionValue[c]>>)
Block(operator, members) ==
    Key(operator) \o <<":", "{">> \o CommaSeparated(members) \o <<"}">>

PrincipalClause(pr) ==
    Key("Principal") \o <<":", "{">> \o
    (IF pr.kind = "AWS"
     THEN Key("AWS") \o <<":", "[">>
          \o CommaSeparated([k \in 1..Len(pr.list) |-> Quoted(<<pr.list[k]>>)])
          \o <<"]">>
     ELSE Key("Service") \o <<":">> \o Quoted(pr.name))
    \o <<"}">>

\* the condition blocks of a document: one block for each condition, or the
\* two StringEquals conditions together in one block
ConditionBlocks(cs, grouped) ==
    LET arn == IF "SourceArn" \in cs
               THEN <<Block("ArnLike", <<Member("SourceArn")>>)>> ELSE <<>>
        equals == SelectSeq(<<"SourceAccount", "PrincipalOrgID">>,
                            LAMBDA c : c \in cs)
    IN
    arn \o (IF equals = <<>> THEN <<>>
            ELSE IF grouped
            THEN <<Block("StringEquals", [k \in 1..Len(equals) |-> Member(equals[k])])>>
            ELSE [k \in 1..Len(equals) |->
                    Block("StringEquals", <<Member(equals[k])>>)])

Document(pr, cs, grouped) ==
    <<"{">> \o
    CommaSeparated(
        (IF pr.kind = "none" THEN <<>> ELSE <<PrincipalClause(pr)>>)
        \o <<Key("Action") \o <<":">> \o Quoted(<<"lambda:InvokeFunction">>)>>
        \o (IF cs = {} THEN <<>>
            ELSE <<Key("Condition") \o <<":", "{">>
                   \o CommaSeparated(ConditionBlocks(cs, grouped)) \o <<"}">>>>))
    \o <<"}">>

\* what is known of a document by the way it was written
Documents ==
    {doc \in [principal : Principals, conditions : SUBSET Conditions,
              grouped : BOOLEAN, spaced : BOOLEAN] :
        doc.grouped => {"SourceAccount", "PrincipalOrgID"} \subseteq doc.conditions}

Text(doc) ==
    LET t == Document(doc.principal, doc.conditions, doc.grouped) IN
    IF doc.spaced THEN Spaced(t) ELSE t

\* the empty string, which the command line passes for a flag not given
NoDocument == [principal |-> [kind |-> "none"], empty |-> TRUE]

ResourcePolicyInputs == {NoDocument} \cup Documents

ResourcePolicyTexts ==
    [input \in ResourcePolicyInputs |->
        IF input = NoDocument THEN <<>> ELSE Text(input)]


----------------------------------------------------------------------------
(* Deploy and Delete up to their first call of the provider: NewLambda,    *)
(* the deploy options, and the first call of Lambda.Deploy or Delete.      *)

ConfigError == Error("SharedConfigLoadError", "failed to load shared config")
RegionError ==
    Error("errorString",
          "unable to determine AWS region. Try setting the AWS_DEFAULT_REGION environment variable")
STSError == Error("ExpiredToken", "")

\* config.LoadDefaultConfig: an error, or a configuration with the region
\* the environment resolves to, if any
LoadDefaultConfigAnswers ==
    {[err |-> ConfigError, Region |-> ""],
     [err |-> NoErr, Region |-> ""],
     [err |-> NoErr, Region |-> "us-east-1"]}

\* AWSAccountID: the answer of sts:GetCallerIdentity
AWSAccountIDAnswers ==
    {[err |-> STSError, accountID |-> ""],
     [err |-> NoErr, accountID |-> AccountID]}

NewLambda_LooksUpAccountFirst(name, cfg, sts) ==
    IF cfg.err # NoErr THEN [l |-> Nil, err |-> cfg.err, sts |-> FALSE]
    ELSE IF sts.err # NoErr THEN [l |-> Nil, err |-> sts.err, sts |-> TRUE]
    ELSE IF cfg.Region = "" THEN [l |-> Nil, err |-> RegionError, sts |-> TRUE]
    ELSE [l |-> Lambda(name, <<AWSLambdaBasicExecutionRole>>, "", "", NilString),
          err |-> NoErr, sts |-> TRUE]

\* NewLambda, given the answers of LoadDefaultConfig and of the account
\* lookup: the Lambda, the error, and whether the lookup was made
NewLambda(name, cfg, sts) ==
    IF cfg.err # NoErr THEN [l |-> Nil, err |-> cfg.err, sts |-> FALSE]
    ELSE IF cfg.Region = "" THEN [l |-> Nil, err |-> RegionError, sts |-> FALSE]
    ELSE IF sts.err # NoErr THEN [l |-> Nil, err |-> sts.err, sts |-> TRUE]
    ELSE [l |-> Lambda(name, <<AWSLambdaBasicExecutionRole>>, "", "", NilString),
          err |-> NoErr, sts |-> TRUE]

WithManagedPolicies(policies, l) ==
    [l |-> [l EXCEPT !.ExecutionRole.ManagedPolicies = ParseManagedPolicy(policies)],
     err |-> NoErr]

WithInlinePolicy(policy, l) ==
    IF policy = <<>> THEN [l |-> l, err |-> NoErr]
    ELSE LET r == ParseInlinePolicy(policy) IN
         IF r.err # NoErr THEN [l |-> l, err |-> r.err]
         ELSE [l |-> [l EXCEPT !.ExecutionRole.InLinePolicy = r.policy],
               err |-> NoErr]

WithResourcePolicy(policy, l) ==
    IF policy = <<>> THEN [l |-> l, err |-> NoErr]
    ELSE LET r == ParseResourcePolicy(policy) IN
         IF r.err # NoErr THEN [l |-> l, err |-> r.err]
         ELSE [l |-> [l EXCEPT !.ResourcePolicy = r.policy], err |-> NoErr]

\* the options of the deploy command, in the order it passes them
DeployOptions == <<"WithManagedPolicies", "WithInlinePolicy", "WithResourcePolicy">>

\* the arguments an option can be built with, and the text of each
OptionInputs(opt) ==
    IF opt = "WithManagedPolicies" THEN ManagedPolicyInputs
    ELSE IF opt = "WithInlinePolicy" THEN InlinePolicyInputs
    ELSE ResourcePolicyInputs

OptionText(opt, input) ==
    IF opt = "WithResourcePolicy" THEN ResourcePolicyTexts[input] ELSE input

\* opt(l) for the option built with the text policy
Apply(opt, policy, l) ==
    IF opt = "WithManagedPolicies" THEN WithManagedPolicies(policy, l)
    ELSE IF opt = "WithInlinePolicy" THEN WithInlinePolicy(policy, l)
    ELSE WithResourcePolicy(policy, l)

NoOption == [name |-> "", input |-> <<>>]

\* a call of Deploy or Delete for the function name, before NewLambda
Entry(entry, name) ==
    [pc |-> "NewLambda", entry |-> entry, name |-> name, cfg |-> Nil,
     l |-> Nil, k |-> 1, before |-> Nil, opt |-> NoOption, applied |-> 0,
     atStart |-> [roles |-> roles, functions |-> functions,
                  attached |-> attached, inlinePolicies |-> inlinePolicies],
     listed |-> <<>>, idx |-> 1, detached |-> <<>>, lastResp |-> NoErr,
     calls |-> <<>>, result |-> NoErr]

InitEntry ==
    /\ roles = {}
    /\ functions = {"test"}
    /\ attached = [r \in RoleNames |-> {}]
    /\ inlinePolicies = [r \in RoleNames |-> {}]
    /\ grants = [f \in FunctionNames |-> {}]
    /\ \E entry \in {"Deploy", "Delete"} :
          proc = [d \in Deployers |->
                    IF d = "d1" THEN Entry(entry, "test") ELSE Idle]

\* NewLambda, as Deploy and Delete call it first
NewLambdaCall(d) ==
    LET p == proc[d] IN
    /\ p.pc = "NewLambda"
    /\ \E cfg \in LoadDefaultConfigAnswers, sts \in AWSAccountIDAnswers :
          LET r == NewLambda(p.name, cfg, sts)
              s == IfErrReturn(r.err, IF p.entry = "Deploy" THEN "opts"
                                      ELSE "Delete")
          IN
          proc' = [proc EXCEPT ![d] =
                     [p EXCEPT !.cfg = cfg, !.l = r.l,
                               !.calls = IF r.sts
                                         THEN Append(@, "GetCallerIdentity")
                                         ELSE @,
                               !.pc = s.pc, !.result = s.result]]
    /\ UNCHANGED <<roles, attached, inlinePolicies, functions, grants>>

\* Deploy: one round of `for _, opt := range opts`
ApplyOption(d) ==
    LET p == proc[d]
        opt == DeployOptions[p.k]
    IN
    /\ p.pc = "opts"
    /\ \E input \in OptionInputs(opt) :
          LET policy == OptionText(opt, input)
              r == Apply(opt, policy, p.l)
              s == IfErrReturn(r.err, IF p.k = Len(DeployOptions)
                                      THEN "Lambda.Deploy" ELSE "opts")
          IN
          proc' = [proc EXCEPT ![d] =
                     [p EXCEPT !.before = p.l, !.l = r.l, !.applied = @ + 1,
                               !.opt = [name |-> opt, input |-> input],
                               !.k = IF r.err = NoErr THEN @ + 1 ELSE @,
                               !.pc = s.pc, !.result = s.result]]
    /\ UNCHANGED <<roles, attached, inlinePolicies, functions, grants>>

\* Deploy: `err = l.Deploy()`, at its first call
LambdaDeploy(d) ==
    LET p == proc[d] IN
    /\ p.pc = "Lambda.Deploy"
    /\ proc' = [proc EXCEPT ![d] = Start(p.l, 1)]
    /\ UNCHANGED <<roles, attached, inlinePolicies, functions, grants>>

\* Delete: lambdaClient.GetFunction
DeleteGetFunction(d) ==
    LET p == proc[d] IN
    /\ p.pc = "Delete"
    /\ \E resp \in GetFunctionAnswers(p.name) :
          LET s == IfErrReturn(resp, "DeleteFunction") IN
          proc' = [proc EXCEPT ![d] =
                     [p EXCEPT !.calls = Append(@, "GetFunction"),
                               !.lastResp = resp,
                               !.pc = s.pc, !.result = s.result]]
    /\ UNCHANGED <<roles, attached, inlinePolicies, functions, grants>>

NextEntry ==
    \E d \in Deployers :
        \/ NewLambdaCall(d)
        \/ ApplyOption(d)
        \/ LambdaDeploy(d)
        \/ GetRole(d)
        \/ DeleteGetFunction(d)

SpecEntry == InitEntry /\ [][NextEntry]_vars


----------------------------------------------------------------------------
(* Delete: the function, then the managed policies of its role, then the   *)
(* role                                                                    *)

DeleteConflict == Error("DeleteConflictException", "")

\* the role name Delete takes from the role ARN the provider answers for
\* the function: strings.Split(roleArn, "/")[1]
FunctionRole(name) == RoleNameOf(name)

\* the listings of a set of policies, in any order
Listings(S) ==
    {s \in [1..Cardinality(S) -> S] : \A j, k \in DOMAIN s : s[j] = s[k] => j = k}

\* ListAttachedRolePolicies answers an error, or the attached policies
ListAttachedRolePoliciesAnswers(roleName) ==
    IF roleName \in roles
    THEN {[err |-> NoErr, AttachedPolicies |-> s] : s \in Listings(attached[roleName])}
         \cup {[err |-> IAMServiceFailure, AttachedPolicies |-> <<>>]}
    ELSE {[err |-> NoSuchEntity, AttachedPolicies |-> <<>>]}

\* DeleteRole is refused while the role holds a managed or an inline policy
DeleteRoleAnswers(roleName) ==
    IF roleName \notin roles THEN {NoSuchEntity}
    ELSE IF attached[roleName] # {} \/ inlinePolicies[roleName] # {}
         THEN {DeleteConflict}
         ELSE {NoErr, IAMServiceFailure}

\* the loop over the listed policies, at its k-th entry
Delete_DetachFrom(listed, k) ==
    IF k <= Len(listed) THEN [pc |-> "DetachRolePolicy", idx |-> k, result |-> NoErr]
                        ELSE [pc |-> "DeleteRole", idx |-> k, result |-> NoErr]

Delete_AfterList(resp) ==
    IF resp.err # NoErr THEN [pc |-> "done", idx |-> 1, result |-> resp.err]
                        ELSE Delete_DetachFrom(resp.AttachedPolicies, 1)

Delete_AfterDetach_IgnoresError(listed, k, err) ==
    Delete_DetachFrom(listed, k + 1)

Delete_AfterDetach(listed, k, err) ==
    IF err # NoErr THEN [pc |-> "done", idx |-> k, result |-> err]
                   ELSE Delete_DetachFrom(listed, k + 1)

\* a call of Delete for the function name, in an account that may hold the
\* function, its role and the policies of the role
InitDelete ==
    /\ functions \in SUBSET {"test"}
    /\ roles \in SUBSET {FunctionRole("test")}
    /\ \E managed \in SUBSET PolicyArns :
          attached = [r \in RoleNames |-> IF r \in roles THEN managed ELSE {}]
    /\ \E inline \in SUBSET {"glambda_inline_policy_DEADBEEF"} :
          inlinePolicies = [r \in RoleNames |-> IF r \in roles THEN inline ELSE {}]
    /\ grants = [f \in FunctionNames |-> {}]
    /\ proc = [d \in Deployers |->
                 IF d = "d1" THEN Entry("Delete", "test") ELSE Idle]

\* Delete: lambdaClient.DeleteFunction
DeleteFunction(d) ==
    LET p == proc[d] IN
    /\ p.pc = "DeleteFunction"
    /\ \E resp \in FunctionAnswers(p.name) :
          LET s == IfErrReturn(resp, "ListAttachedRolePolicies") IN
          /\ functions' = IF resp = NoErr THEN functions \ {p.name} ELSE functions
          /\ grants' = IF resp = NoErr THEN [grants EXCEPT ![p.name] = {}]
                                       ELSE grants
          /\ proc' = [proc EXCEPT ![d] =
                        [p EXCEPT !.calls = Append(@, "DeleteFunction"),
                                  !.lastResp = resp,
                                  !.pc = s.pc, !.result = s.result]]
    /\ UNCHANGED <<roles, attached, inlinePolicies>>

\* Delete: iamClient.ListAttachedRolePolicies
ListAttachedRolePolicies(d) ==
    LET p == proc[d] IN
    /\ p.pc = "ListAttachedRolePolicies"
    /\ \E resp \in ListAttachedRolePoliciesAnswers(FunctionRole(p.name)) :
          LET s == Delete_AfterList(resp) IN
          proc' = [proc EXCEPT ![d] =
                     [p EXCEPT !.calls = Append(@, "ListAttachedRolePolicies"),
                               !.lastResp = resp.err,
                               !.listed = resp.AttachedPolicies,
                               !.idx = s.idx,
                               !.pc = s.pc, !.result = s.result]]
    /\ UNCHANGED <<roles, attached, inlinePolicies, functions, grants>>

\* Delete: iamClient.DetachRolePolicy, for the listed policy at idx
DetachRolePolicy(d) ==
    LET p == proc[d]
        roleName == FunctionRole(p.name)
        arn == p.listed[p.idx]
    IN
    /\ p.pc = "DetachRolePolicy"
    /\ \E resp \in IF arn \in attached[roleName] THEN RolePolicyAnswers(roleName)
                                                 ELSE {NoSuchEntity} :
          LET s == Delete_AfterDetach(p.listed, p.idx, resp) IN
          /\ attached' = IF resp = NoErr
                         THEN [attached EXCEPT ![roleName] = @ \ {arn}]
                         ELSE attached
          /\ proc' = [proc EXCEPT ![d] =
                        [p EXCEPT !.calls = Append(@, "DetachRolePolicy"),
                                  !.lastResp = resp,
                                  !.detached = IF resp = NoErr THEN Append(@, arn)
                                                               ELSE @,
                                  !.idx = s.idx,
                                  !.pc = s.pc, !.result = s.result]]
    /\ UNCHANGED <<roles, inlinePolicies, functions, grants>>

\* Delete: iamClient.DeleteRole, whose error Delete returns
DeleteRole(d) ==
    LET p == proc[d]
        roleName == FunctionRole(p.name)
    IN
    /\ p.pc = "DeleteRole"
    /\ \E resp \in DeleteRoleAnswers(roleName) :
          /\ roles' = IF resp = NoErr THEN roles \ {roleName} ELSE roles
          /\ proc' = [proc EXCEPT ![d] =
                        [p EXCEPT !.calls = Append(@, "DeleteRole"),
                                  !.lastResp = resp,
                                  !.pc = "done", !.result = resp]]
    /\ UNCHANGED <<attached, inlinePolicies, functions, grants>>

NextDelete ==
    \E d \in Deployers :
        \/ NewLambdaCall(d)
        \/ DeleteGetFunction(d)
        \/ DeleteFunction(d)
        \/ ListAttachedRolePolicies(d)
        \/ DetachRolePolicy(d)
        \/ DeleteRole(d)

SpecDelete == InitDelete /\ [][NextDelete]_vars


----------------------------------------------------------------------------
(* Properties of the parsers and of the entry points *)

\* the processes that have applied the deploy option of the given name last
\* and have not called Lambda.Deploy yet
JustApplied(name) ==
    {d \in Deployers : /\ "opt" \in DOMAIN proc[d]
                       /\ proc[d].opt.name = name}

\* the text the last option of a process was built with
TextOf(p) == OptionText(p.opt.name, p.opt.input)

\* the principal a document is written with, as ParseResourcePolicy is to
\* return it
ExpectedPrincipal(pr) ==
    IF pr.kind = "AWS"
    THEN "{AWS:[" \o Join(CommaSeparated(
                            [k \in 1..Len(pr.list) |-> Quoted(<<pr.list[k]>>)]))
         \o "]}"
    ELSE "{Service:" \o Join(pr.name) \o "}"

\* C22: parsing a document with an "AWS" list principal yields the principal
\* {AWS:[<list>]} with the list as written, blanks removed, and parsing a
\* document with a "Service" principal yields {Service:<name>}, whatever
\* blanks the document holds.
C22_PrincipalAsWritten ==
    \A d \in JustApplied("WithResourcePolicy") :
        LET p == proc[d]
            pr == p.opt.input.principal
        IN
        pr.kind # "none" =>
            /\ ParseResourcePolicy(TextOf(p)).err = NoErr
            /\ ParseResourcePolicy(TextOf(p)).policy.Principal = ExpectedPrincipal(pr)
            /\ p.result = NoErr
            /\ p.l.ResourcePolicy.Principal = ExpectedPrincipal(pr)


MissingPrincipal == Error("errorString", "principal not found in resource policy")

\* C23 as stated: for every document without a principal clause
\* ParseResourcePolicy fails with the missing-principal error, and
\* WithResourcePolicy returns that error and leaves the Lambda's
\* ResourcePolicy as it was.
C23_MissingPrincipalRejected ==
    \A d \in JustApplied("WithResourcePolicy") :
        LET p == proc[d] IN
        p.opt.input.principal.kind = "none" =>
            /\ ParseResourcePolicy(TextOf(p)).err = MissingPrincipal
            /\ p.result = MissingPrincipal
            /\ p.pc = "done"
            /\ p.l = p.before

\* C23: for every document without a principal clause ParseResourcePolicy
\* fails with the missing-principal error; WithResourcePolicy returns that
\* error for every such document but the empty string, for which it returns
\* no error without parsing; in both cases the Lambda's ResourcePolicy is
\* left as it was.
C23_MissingPrincipalRejectedUnlessEmpty ==
    \A d \in JustApplied("WithResourcePolicy") :
        LET p == proc[d] IN
        p.opt.input.principal.kind = "none" =>
            /\ ParseResourcePolicy(TextOf(p)).err = MissingPrincipal
            /\ p.l = p.before
            /\ IF TextOf(p) = <<>>
               THEN p.result = NoErr /\ p.pc = "Lambda.Deploy"
               ELSE p.result = MissingPrincipal /\ p.pc = "done"

\* Deploy has returned the missing-principal error for a document that holds
\* conditions and no principal
C23_Witness ==
    \E d \in JustApplied("WithResourcePolicy") :
        /\ proc[d].opt.input.principal.kind = "none"
        /\ proc[d].opt.input # NoDocument
        /\ proc[d].opt.input.conditions # {}
        /\ proc[d].result = MissingPrincipal
        /\ proc[d].pc = "done"


\* C24: for every subset of the three conditions written in a document that
\* has a principal, ParseResourcePolicy returns each condition written with
\* exactly its quoted value and every other condition unset, whether the
\* StringEquals conditions stand in blocks of their own or in one block.
C24_ConditionsExtracted ==
    \A d \in JustApplied("WithResourcePolicy") :
        LET p == proc[d]
            doc == p.opt.input
            expected(c) == IF c \in doc.conditions THEN ConditionValue[c]
                           ELSE NilString
        IN
        doc.principal.kind # "none" =>
            /\ p.result = NoErr
            /\ p.l.ResourcePolicy.SourceArnCondition = expected("SourceArn")
            /\ p.l.ResourcePolicy.SourceAccountCondition = expected("SourceAccount")
            /\ p.l.ResourcePolicy.PrincipalOrgIdCondition = expected("PrincipalOrgID")


\* the entries of a managed-policy list as the user meant them: the text
\* between the commas, without blanks and quotes
Entries(policy) == Split(removeQuotes(removeWhitespace(policy)))

\* the number of commas of a text
Commas(policy) == Cardinality({i \in 1..Len(policy) : policy[i] = ","})

\* C25: ParseManagedPolicy outputs one identifier for each comma-separated
\* entry, in the order of the input: the entry itself, without blanks and
\* quotes, when it begins with "arn:", and the entry prefixed with
\* "arn:aws:iam::aws:policy/" when it is a bare name; expanding the list it
\* has output gives that list again. WithManagedPolicies stores the list in
\* the execution role.
C25_ManagedPolicyExpansion ==
    \A d \in JustApplied("WithManagedPolicies") :
        LET p == proc[d]
            policy == TextOf(p)
            out == expandedPolicyArns(policy)
        IN
        /\ p.l.ExecutionRole.ManagedPolicies = JoinEach(out)
        /\ p.result = NoErr
        /\ Len(out) = IF policy = <<>> THEN 0 ELSE Commas(policy) + 1
        /\ \A k \in 1..Len(out) :
              LET entry == Entries(policy)[k] IN
              /\ out[k] \in {entry, PolicyNamespace \o entry}
              /\ out[k] = entry <=>
                    (Len(entry) >= 4 /\ SubSeq(entry, 1, 4) = <<"a", "r", "n", ":">>)
              /\ \A i \in 1..Len(out[k]) :
                    out[k][i] \notin Whitespace \cup {Q, Apostrophe, ","}
        /\ expandedPolicyArns(CommaSeparated(out)) = out

\* a list of a bare name and a quoted full ARN, expanded to two different
\* identifiers in the order of the input
C25_Witness ==
    \E d \in JustApplied("WithManagedPolicies") :
        /\ TextOf(proc[d]) =
              <<"IAMFullAccess", ",", Apostrophe, "a", "r", "\n", "n", ":",
                "aws:iam::aws:policy/", "AmazonS3FullAccess", Apostrophe>>
        /\ proc[d].l.ExecutionRole.ManagedPolicies =
              <<IAMFullAccess, "arn:aws:iam::aws:policy/AmazonS3FullAccess">>


\* a text with an odd number of double quotes ends inside a string, so it is
\* not a JSON document
UnterminatedString(policy) ==
    Cardinality({i \in 1..Len(policy) : policy[i] = Q}) % 2 = 1

\* C26: for an inline policy document that is not parseable JSON,
\* ParseInlinePolicy returns an error, and WithInlinePolicy returns that
\* error and leaves the InLinePolicy of the execution role as it was.
C26_InvalidInlineRejected ==
    \A d \in JustApplied("WithInlinePolicy") :
        LET p == proc[d] IN
        UnterminatedString(TextOf(p)) =>
            /\ ParseInlinePolicy(TextOf(p)).err # NoErr
            /\ p.result = ParseInlinePolicy(TextOf(p)).err
            /\ p.pc = "done"
            /\ p.l.ExecutionRole.InLinePolicy = p.before.ExecutionRole.InLinePolicy

\* C27: ParseInlinePolicy of the empty string returns an error, and
\* WithInlinePolicy built with the empty string returns an error when it is
\* applied to a Lambda.
C27_EmptyInlineRejected ==
    /\ ParseInlinePolicy(<<>>).err # NoErr
    /\ \A d \in JustApplied("WithInlinePolicy") :
          TextOf(proc[d]) = <<>> => proc[d].result # NoErr /\ proc[d].pc = "done"


\* the processes that are in, or have returned from, Deploy or Delete
\* before Lambda.Deploy was called
Entered == {d \in Deployers : "entry" \in DOMAIN proc[d]}

\* C28: when the configuration loads but resolves no region, NewLambda
\* returns the configuration error of the missing region, and so do Deploy
\* and Delete, without any remote call made: neither the account lookup nor
\* a call of the identity or the function service.
C28_NoRegionNoRemoteCall ==
    \A d \in Entered :
        LET p == proc[d] IN
        (p.cfg # Nil /\ p.cfg.err = NoErr /\ p.cfg.Region = "") =>
            /\ NewLambda(p.name, p.cfg, CHOOSE a \in AWSAccountIDAnswers : a.err = NoErr).err
                  = RegionError
            /\ p.pc = "done"
            /\ p.result = RegionError
            /\ p.calls = <<>>
            /\ p.l = Nil
            /\ p.applied = 0

\* Delete has returned the error of the missing region
C28_Witness ==
    \E d \in Entered :
        /\ proc[d].entry = "Delete"
        /\ proc[d].cfg # Nil
        /\ proc[d].cfg.Region = ""
        /\ proc[d].cfg.err = NoErr
        /\ proc[d].result = RegionError
        /\ proc[d].pc = "done"

----------------------------------------------------------------------------
(* Properties of the actions and of repeated and concurrent deployments *)

\* C31: a role action with a staged CreateRole, executed when the role
\* exists already, returns the provider's error of the CreateRole call, and
\* its execution calls neither AttachRolePolicy nor PutRolePolicy.
C31_CreateRoleOnExistingRole ==
    \A d \in Active :
        LET p == proc[d] IN
        /\ (Last(p.calls) = "CreateRole" /\ p.lastResp = EntityAlreadyExists) =>
              /\ p.roleAction.CreateRole # Nil
              /\ p.pc = "done"
              /\ p.result = EntityAlreadyExists
        /\ (Made(p, "CreateRole") /\ p.roleAction.CreateRole.RoleName \in roles
              /\ p.result = EntityAlreadyExists) =>
              /\ Last(p.calls) = "CreateRole"
              /\ ~Made(p, "AttachRolePolicy")
              /\ ~Made(p, "PutRolePolicy")

\* a deployment that staged a CreateRole with an inline policy and was
\* answered that the role exists, after the other deployment made the role
C31_Witness ==
    \E d \in Active :
        /\ proc[d].roleAction # Nil
        /\ proc[d].roleAction.CreateRole # Nil
        /\ Len(proc[d].roleAction.InlinePolicies) = 1
        /\ proc[d].roleAction.CreateRole.RoleName \in roles
        /\ Last(proc[d].calls) = "CreateRole"
        /\ proc[d].result = EntityAlreadyExists
        /\ proc[d].pc = "done"

\* the calls Delete makes after NewLambda
DeleteCalls(p) == SelectSeq(p.calls, LAMBDA op : op # "GetCallerIdentity")

\* the calls of a Delete that nothing stops, for the listing it was answered
DeleteOrder(listed) ==
    <<"GetFunction", "DeleteFunction", "ListAttachedRolePolicies">>
    \o [k \in 1..Len(listed) |-> "DetachRolePolicy"]
    \o <<"DeleteRole">>

\* C32: Delete calls GetFunction, DeleteFunction, ListAttachedRolePolicies,
\* DetachRolePolicy once for each listed policy in the order of the listing,
\* and DeleteRole, in this order; DeleteRole is called only when every listed
\* policy was detached without error; a call answered an error ends Delete
\* with that error and is its last call; and when GetFunction fails, the
\* account holds what it held before.
C32_DeleteOrder ==
    \A d \in Entered :
        LET p == proc[d] IN
        p.entry = "Delete" =>
            /\ IsPrefix(DeleteCalls(p), DeleteOrder(p.listed))
            /\ IsPrefix(p.detached, p.listed)
            /\ Made(p, "DeleteRole") => p.detached = p.listed
            /\ p.lastResp # NoErr => p.pc = "done" /\ p.result = p.lastResp
            /\ (p.pc = "done" /\ p.result = NoErr) =>
                  /\ Last(p.calls) = "DeleteRole"
                  /\ p.name \notin functions
                  /\ FunctionRole(p.name) \notin roles
            /\ (Last(p.calls) = "GetFunction" /\ p.lastResp # NoErr) =>
                  /\ roles = p.atStart.roles
                  /\ functions = p.atStart.functions
                  /\ attached = p.atStart.attached
                  /\ inlinePolicies = p.atStart.inlinePolicies

\* a Delete that was listed two managed policies, detached both and deleted
\* the role
C32_Witness ==
    \E d \in Entered :
        /\ proc[d].entry = "Delete"
        /\ Len(proc[d].listed) = 2
        /\ proc[d].detached = proc[d].listed
        /\ Last(proc[d].calls) = "DeleteRole"
        /\ proc[d].pc = "done"
        /\ proc[d].result = NoErr
        /\ roles = {}

\* the PublishVersion calls of the deployment, and how its wait has ended
Waits(p) == Count(p.calls, "PublishVersion")
WaitReturned(p) == Made(p, "PublishVersion") /\ p.pc # "PublishVersion"
ReturnedVersion(p) ==
    /\ p.failure.at # "PublishVersion"
    /\ p.version \in Versions
    /\ p.delays = Waits(p) - 1
ReturnedTimeout(p) ==
    /\ p.failure.at = "PublishVersion"
    /\ p.result = ConsistencyTimeout(p.lastResp)
    /\ p.version = ""
    /\ p.delays = Waits(p)
ReturnedVersionIsNil(p) ==
    /\ p.failure.at = "PublishVersion"
    /\ p.result = VersionIsNil
    /\ p.version = ""
    /\ p.delays = Waits(p) - 1

\* at most eleven PublishVersion calls, and while the wait goes on every call
\* so far has failed and was followed by one delay
BoundedWait(p) ==
    /\ Waits(p) <= retryLimit + 1
    /\ p.pc = "PublishVersion" => (p.i = Waits(p) /\ p.delays = Waits(p))

\* C33 as stated: WaitForConsistency makes at most eleven PublishVersion
\* calls, delays once after each failed one, and returns a version or the
\* timeout error.
C33_VersionOrTimeout ==
    \A d \in Active :
        LET p == proc[d] IN
        /\ BoundedWait(p)
        /\ WaitReturned(p) => (ReturnedVersion(p) \/ ReturnedTimeout(p))

\* C33: WaitForConsistency terminates whatever PublishVersion answers: it
\* makes at most eleven PublishVersion calls, delays once after each failed
\* one, and returns a version, the timeout error after eleven failures, or
\* the error "version is nil" when a call succeeded without a version.
C33_TerminatesBounded ==
    /\ [](\A d \in Active :
            LET p == proc[d] IN
            /\ BoundedWait(p)
            /\ WaitReturned(p) =>
                  \/ ReturnedVersion(p)
                  \/ ReturnedTimeout(p) /\ Waits(p) = retryLimit + 1
                  \/ ReturnedVersionIsNil(p))
    /\ \A d \in Deployers :
          (proc[d].pc = "PublishVersion") ~> (proc[d].pc # "PublishVersion")

\* a wait that ended with the timeout after eleven failed calls and eleven
\* delays
C33_Witness ==
    \E d \in Active :
        /\ ReturnedTimeout(proc[d])
        /\ Waits(proc[d]) = retryLimit + 1
        /\ proc[d].delays = retryLimit + 1
        /\ proc[d].pc = "done"

\* the position of the call op in the calls of the deployment, 0 if none
IndexOf(s, op) ==
    IF \E k \in 1..Len(s) : s[k] = op
    THEN CHOOSE k \in 1..Len(s) : s[k] = op /\ \A j \in 1..(k - 1) : s[j] # op
    ELSE 0

\* C34: LambdaCreateAction.Do calls AddPermission at most once, and only as
\* the call after a CreateFunction that was answered without error, so that
\* the function exists; when CreateFunction fails Do returns its error and
\* AddPermission is not called; when AddPermission fails Do returns its
\* error, and the function CreateFunction made is still there, without the
\* grant.
C34_GrantAfterCreate ==
    \A d \in Active :
        LET p == proc[d]
            name == p.l.Name
        IN
        /\ Count(p.calls, "AddPermission") <= 1
        /\ p.pc = "AddPermission" =>
              /\ Last(p.calls) = "CreateFunction"
              /\ p.lastResp = NoErr
              /\ p.action.ResourcePolicyCommand # Nil
              /\ name \in functions
        /\ Made(p, "AddPermission") =>
              /\ IndexOf(p.calls, "AddPermission")
                    = IndexOf(p.calls, "CreateFunction") + 1
              /\ Count(p.calls, "CreateFunction") = 1
              /\ p.failure.at # "CreateFunction"
              /\ name \in functions
        /\ p.failure.at = "CreateFunction" =>
              /\ ~Made(p, "AddPermission")
              /\ p.pc = "done"
              /\ p.result = p.failure.err
              /\ p.result # NoErr
        /\ p.failure.at = "AddPermission" =>
              /\ p.pc = "done"
              /\ p.result = p.lastResp
              /\ p.result # NoErr
              /\ name \in functions /\ ~p.atStart.function
              /\ grants[name] = {}

\* a create action whose CreateFunction made the function and whose
\* AddPermission failed: Do has returned the error, the function is there
C34_Witness ==
    \E d \in Active :
        /\ proc[d].failure.at = "AddPermission"
        /\ proc[d].result = LambdaServiceFailure
        /\ proc[d].pc = "done"
        /\ proc[d].l.Name \in functions
        /\ grants[proc[d].l.Name] = {}

\* C35: whenever a run of Deploy for a descriptor with a principal returns
\* success, whatever runs came before it and whatever the account held, the
\* function holds the grant of an AddPermission that succeeded.
C35_SuccessImpliesGrant ==
    \A d \in Active :
        LET p == proc[d] IN
        (/\ p.pc = "done"
         /\ p.result = NoErr
         /\ p.l.ResourcePolicy.Principal # "") =>
            grants[p.l.Name] # {}

\* how the CreateRole and the CreateFunction of a deployment have ended
CreateRoleReturned(p) == Made(p, "CreateRole") /\ p.pc # "CreateRole"
CreatedRole(p) == CreateRoleReturned(p) /\ p.failure.at # "CreateRole"
LostRole(p) == p.failure = [at |-> "CreateRole", err |-> EntityAlreadyExists]
CreateFunctionReturned(p) == Made(p, "CreateFunction") /\ p.pc # "CreateFunction"
CreatedFunction(p) == CreateFunctionReturned(p) /\ p.failure.at # "CreateFunction"
LostFunction(p) == p.failure = [at |-> "CreateFunction", err |-> ResourceConflict]

\* C36: of two deployments of one function name that both found no role, at
\* most one creates the role, and exactly one when the provider answers both
\* CreateRole calls by the existence of the role alone: the other is answered
\* that the role exists; likewise for CreateFunction of two deployments that
\* both found no function. A deployment answered "exists already" returns
\* that error as the result of its last call: it looks up neither the role
\* nor the function again and does not update the function.
C36_OneCreatorOneLoser ==
    \A d \in Deployers : \A e \in Deployers \ {d} :
        LET p == proc[d]
            q == proc[e]
        IN
        /\ ~(CreatedRole(p) /\ CreatedRole(q))
        /\ ~(CreatedFunction(p) /\ CreatedFunction(q))
        /\ (/\ CreateRoleReturned(p) /\ CreateRoleReturned(q)
            /\ p.failure # [at |-> "CreateRole", err |-> IAMServiceFailure]
            /\ q.failure # [at |-> "CreateRole", err |-> IAMServiceFailure]) =>
              (CreatedRole(p) /\ LostRole(q)) \/ (CreatedRole(q) /\ LostRole(p))
        /\ (/\ CreateFunctionReturned(p) /\ CreateFunctionReturned(q)
            /\ p.failure.at = "CreateFunction" => p.failure.err = ResourceConflict
            /\ q.failure.at = "CreateFunction" => q.failure.err = ResourceConflict) =>
              \/ CreatedFunction(p) /\ LostFunction(q)
              \/ CreatedFunction(q) /\ LostFunction(p)
        /\ LostRole(p) =>
              /\ p.pc = "done"
              /\ p.result = EntityAlreadyExists
              /\ p.calls = <<"GetRole", "CreateRole">>
              /\ p.l.ExecutionRole.RoleName \in roles
        /\ LostFunction(p) =>
              /\ p.pc = "done"
              /\ p.result = ResourceConflict
              /\ Last(p.calls) = "CreateFunction"
              /\ Count(p.calls, "GetFunction") = 1
              /\ Count(p.calls, "GetRole") = 1
              /\ ~Made(p, "UpdateFunctionCode")
              /\ p.l.Name \in functions

\* two deployments that both found no function: one has created it and made
\* the grant, the other was answered the conflict and has returned it
C36_Witness ==
    \E d \in Deployers : \E e \in Deployers \ {d} :
        /\ proc[d].action # Nil /\ proc[e].action # Nil
        /\ proc[d].action.kind = "LambdaCreateAction"
        /\ proc[e].action.kind = "LambdaCreateAction"
        /\ CreatedFunction(proc[d])
        /\ Made(proc[d], "AddPermission")
        /\ LostFunction(proc[e])
        /\ proc[e].pc = "done"
        /\ proc[e].result = ResourceConflict

\* C37: whenever ParseResourcePolicy returns no error the principal it
\* returns is not empty, so a Lambda that WithResourcePolicy has set from a
\* document stages a grant when it is deployed.
C37_AcceptedDocumentGrants ==
    \A d \in JustApplied("WithResourcePolicy") :
        LET p == proc[d]
            r == ParseResourcePolicy(TextOf(p))
        IN
        r.err = NoErr =>
            /\ r.policy.Principal # ""
            /\ (TextOf(p) # <<>> /\ p.result = NoErr) =>
                  CreateLambdaResourcePolicy(p.l, "DEADBEEF") # Nil

\* the AttachRolePolicy inputs a role action has sent, in order
AttachesSent(p) == SelectSeq(p.sent, LAMBDA cmd : "PolicyArn" \in DOMAIN cmd)

\* C38: the execution of a role action sends no managed policy to
\* AttachRolePolicy twice; for the descriptor NewLambda builds, whose managed
\* policies are the baseline alone, the baseline is attached exactly once.
C38_NoPolicyAttachedTwice ==
    \A d \in Active :
        LET p == proc[d]
            sent == AttachesSent(p)
        IN
        /\ \A j, k \in 1..Len(sent) :
              sent[j].PolicyArn = sent[k].PolicyArn => j = k
        /\ (/\ p.l.ExecutionRole.ManagedPolicies = <<AWSLambdaBasicExecutionRole>>
            /\ Made(p, "AttachRolePolicy")
            /\ p.pc \notin {"AttachRolePolicy", "done"}) =>
              Len(sent) = 1

\* C39: no identifier ParseManagedPolicy returns is the bare namespace
\* "arn:aws:iam::aws:policy/" with no policy name after it, and for a text
\* that names no policy (nothing but blanks, quotes and commas) it returns
\* the empty list.
C39_NoEmptyPolicyName ==
    \A d \in JustApplied("WithManagedPolicies") :
        LET p == proc[d]
            out == ParseManagedPolicy(TextOf(p))
            named == {k \in 1..Len(TextOf(p)) :
                        TextOf(p)[k] \notin Whitespace \cup {Q, Apostrophe, ","}}
        IN
        /\ \A k \in 1..Len(out) : out[k] # Join(PolicyNamespace)
        /\ named = {} => out = <<>>
        /\ p.l.ExecutionRole.ManagedPolicies = out

\* C40: a PublishVersion answered without error and without a version ends
\* WaitForConsistency at once with the error "version is nil": no delay
\* follows the call, no further PublishVersion is made, and Lambda.Test
\* returns the error without calling Invoke.
C40_NilVersionEndsTest ==
    \A d \in Active :
        LET p == proc[d] IN
        /\ (/\ Last(p.calls) = "PublishVersion"
            /\ p.lastResp = NoErr
            /\ p.lastVersion = NilString) =>
              /\ p.pc = "done"
              /\ p.result = VersionIsNil
              /\ p.failure = [at |-> "PublishVersion", err |-> VersionIsNil]
              /\ p.delays = Waits(p) - 1
              /\ p.i = Waits(p) - 1
              /\ p.version = ""
              /\ p.invoke = Nil
        /\ p.result = VersionIsNil => ~Made(p, "Invoke")

\* a wait whose third PublishVersion succeeded without a version, after two
\* failed calls and two delays
C40_Witness ==
    \E d \in Active :
        /\ Last(proc[d].calls) = "PublishVersion"
        /\ proc[d].lastResp = NoErr
        /\ proc[d].lastVersion = NilString
        /\ Waits(proc[d]) = 3
        /\ proc[d].delays = 2
        /\ proc[d].result = VersionIsNil
        /\ proc[d].pc = "done"

====
